---- MODULE Spec2Model ----
(***************************************************************************)
(* A model of the dumpstate section parsers (src/dumpstate).  Text is a    *)
(* sequence of one-character strings; a regular expression of the source   *)
(* is an operator that scans such a sequence the way Python's re module    *)
(* does (leftmost match, greedy/lazy quantifiers, non-overlapping re.sub). *)
(***************************************************************************)
EXTENDS Integers, Sequences, FiniteSets, TLC

(***************************************************************************)
(* A parser of the package is called on a report.  These variables are the *)
(* call: which parser, where it is in its function, and how it ends.       *)
(***************************************************************************)
VARIABLES
    parser,             \* the function that is called
    pc,                 \* the position of the parser in its function
    warnings,           \* what LOGGER.warning received
    raised,             \* the exception that reached the caller, "" for none
    result              \* the kind of value returned: "None", ..., or "" before

(***************************************************************************)
(* The state of parse_usb_manager_state (src/dumpstate/usb/__init__.py).   *)
(* Indices are Python's (0-based).                                         *)
(***************************************************************************)
VARIABLES
    raw,                \* dumpstate_content.raw
    now_year,           \* datetime.now().year at parse time
    block,
    event_lines,
    list_events,        \* the argument of the last UsbDeviceManager.add_events call
    data,               \* the UsbManagerData being built
    start_index,
    scan_i,             \* i of the brace scan loop
    brace_level,
    end_index,
    json_like_content,
    text,               \* the text of clean_and_load_json between its rules
    parsed_json_data

usbVars == <<raw, now_year, block, event_lines, list_events, data, start_index, scan_i,
             brace_level, end_index, json_like_content, text, parsed_json_data>>

(***************************************************************************)
(* One rewrite rule of clean_and_load_json applied on its own, pass after  *)
(* pass.                                                                   *)
(***************************************************************************)
VARIABLES
    sub_text,           \* the text, before the first pass and after each pass
    sub_prev,           \* the text before the last pass
    sub_rule,           \* the rule that is applied, 0 before the first pass
    sub_passes          \* the passes done

subVars == <<sub_text, sub_prev, sub_rule, sub_passes>>

(***************************************************************************)
(* The state of parse_process_info (src/dumpstate/process/__init__.py).    *)
(***************************************************************************)
VARIABLES
    report_lines,       \* dumpstate_content.lines
    line_no,            \* the line the running loop is at (1-based)
    current_section,
    section_lines,
    info,               \* the ProcessReport being built
    process_lines_started

procVars == <<report_lines, line_no, current_section, section_lines, info,
              process_lines_started>>

(***************************************************************************)
(* The state of parse_package_install_log (src/dumpstate/package/log.py).  *)
(***************************************************************************)
VARIABLES
    in_section,         \* the capture counter
    current_observer,
    sections,
    key_no,             \* the key the loop over sections is at (1-based)
    log_data

logVars == <<in_section, current_observer, sections, key_no, log_data>>

(***************************************************************************)
(* The state of parse_package_info (src/dumpstate/package/__init__.py).    *)
(* Its current_section is the variable of that name above.                 *)
(***************************************************************************)
VARIABLES
    in_package_section,
    package_content_lines,
    package_info,
    current_package,    \* 0 for None, else the place of the Package in packages
    current_package_subsection

pkgVars == <<in_package_section, package_content_lines, package_info, current_package,
             current_package_subsection>>

(***************************************************************************)
(* The state of parse_anr_traces (src/dumpstate/vm_traces/__init__.py).    *)
(***************************************************************************)
VARIABLES
    anr_lines,          \* lines, the lines of anr_content
    anr_i,              \* i, the (0-based) cursor of the while loop
    anr_trace,          \* the AnrTrace being built
    current_thread      \* the Thread being built, PyNone for None

anrVars == <<anr_lines, anr_i, anr_trace, current_thread>>

(***************************************************************************)
(* The lines of the located section of the parsers that find their section *)
(* with one regular expression and loop over content.strip().split(b'\n')  *)
(* (parse_account_service, parse_lsmod, parse_mount_points).               *)
(***************************************************************************)
VARIABLES
    content_lines

(***************************************************************************)
(* The state of parse_account_service (src/dumpstate/services/account.py). *)
(***************************************************************************)
VARIABLES
    account_info,
    current_user,       \* the UserAccount being built, PyNone for None
    parsing_section,    \* "None" for None
    current_visibility_account  \* PyNone for None

accVars == <<account_info, current_user, parsing_section, current_visibility_account>>

(***************************************************************************)
(* The state of parse_keyguard_service (src/dumpstate/services/            *)
(* keyguard.py); its section_lines and current_section are the variables   *)
(* of these names above, section_lines holding a list of lines here.       *)
(***************************************************************************)
VARIABLES
    service_info,
    in_unlock_info,
    current_user_settings   \* PyNone for None

kgVars == <<service_info, in_unlock_info, current_user_settings>>

(***************************************************************************)
(* The lists parse_lsmod (src/dumpstate/kernel/lsmod.py) and               *)
(* parse_mount_points (src/dumpstate/mount/__init__.py) build.             *)
(***************************************************************************)
VARIABLES
    lsmod_modules,
    mount_points

seqVars == <<lsmod_modules, mount_points>>

(***************************************************************************)
(* The state of parse_dumpstate_header (src/dumpstate/header/__init__.py). *)
(***************************************************************************)
VARIABLES
    hdr_lines,          \* lines, the lines of header_content
    hdr_i,              \* i, the (0-based) cursor of the while loop
    hdr_key,            \* key, of the line that opened the value being collected
    hdr_value,          \* value, with the lines the look-ahead has joined so far
    dumpstate_header    \* header, the DumpstateHeader being built

hdrVars == <<hdr_lines, hdr_i, hdr_key, hdr_value, dumpstate_header>>

\* what the actions of one parser leave alone
nonUsbVars ==
    <<parser, subVars, procVars, logVars, pkgVars, anrVars, content_lines, accVars, kgVars, seqVars, hdrVars>>

nonSubVars ==
    <<parser, pc, warnings, raised, result, usbVars, procVars, logVars, pkgVars,
      anrVars, content_lines, accVars, kgVars, seqVars, hdrVars>>

nonProcVars ==
    <<parser, usbVars, subVars, logVars, pkgVars, anrVars, content_lines, accVars, kgVars, seqVars, hdrVars>>

nonLogVars ==
    <<parser, usbVars, subVars, current_section, section_lines, info,
      process_lines_started, pkgVars, anrVars, content_lines, accVars, kgVars, seqVars, hdrVars>>

nonPkgVars ==
    <<parser, usbVars, subVars, section_lines, info, process_lines_started, logVars,
      anrVars, content_lines, accVars, kgVars, seqVars, hdrVars>>

nonAnrVars ==
    <<parser, usbVars, subVars, procVars, logVars, pkgVars, content_lines, accVars,
      kgVars, seqVars, hdrVars>>

nonAccVars ==
    <<parser, usbVars, subVars, report_lines, current_section, section_lines, info,
      process_lines_started, logVars, pkgVars, anrVars, kgVars, seqVars, hdrVars>>

nonKgVars ==
    <<parser, usbVars, subVars, info, process_lines_started, logVars, pkgVars, anrVars,
      content_lines, accVars, seqVars, hdrVars>>

nonSeqVars ==
    <<parser, usbVars, subVars, report_lines, current_section, section_lines, info,
      process_lines_started, logVars, pkgVars, anrVars, accVars, kgVars, hdrVars>>

nonHdrVars ==
    <<parser, usbVars, subVars, procVars, logVars, pkgVars, anrVars, content_lines,
      accVars, kgVars, seqVars>>

vars ==
    <<parser, pc, warnings, raised, result, usbVars, subVars, procVars, logVars,
      pkgVars, anrVars, content_lines, accVars, kgVars, seqVars, hdrVars>>

(***************************************************************************)
(* Character classes of Python's re module, over the characters used here. *)
(***************************************************************************)
Ws == {" ", "\n", "\t"}

Digit == {"0", "1", "2", "3", "4", "5", "6", "7", "8", "9"}

Lower == {"a", "b", "c", "d", "e", "f", "g", "h", "i", "j", "k", "l", "m",
          "n", "o", "p", "q", "r", "s", "t", "u", "v", "w", "x", "y", "z"}

Upper == {"A", "B", "C", "D", "E", "F", "G", "H", "I", "J", "K", "L", "M",
          "N", "O", "P", "Q", "R", "S", "T", "U", "V", "W", "X", "Y", "Z"}

WordCh == Lower \cup Upper \cup Digit \cup {"_"}

\* the class [\w\s-] of the key of a `key = value` line
KeyCh == WordCh \cup Ws \cup {"-"}

\* the literals of the rewrite rules
TrueLit == <<"t", "r", "u", "e">>

FalseLit == <<"f", "a", "l", "s", "e">>

NullLit == <<"n", "u", "l", "l">>

(***************************************************************************)
(* Sequence helpers.                                                       *)
(***************************************************************************)
\* t[i..j-1]
Slice(t, i, j) == SubSeq(t, i, j - 1)

\* t has the literal lit at position i
HasAt(t, i, lit) ==
    /\ i >= 1
    /\ i + Len(lit) - 1 <= Len(t)
    /\ \A k \in 1..Len(lit) : t[i + k - 1] = lit[k]

\* the least and the greatest of a non-empty set of integers
Min(S) == CHOOSE x \in S : \A y \in S : x <= y

Max(S) == CHOOSE x \in S : \A y \in S : x >= y

\* the end (exclusive) of the longest run of characters of class cls from i
RunEnd(t, i, cls) ==
    LET stops == {j \in i..Len(t) : t[j] \notin cls}
    IN  IF stops /= {} THEN Min(stops)
        ELSE IF i > Len(t) THEN i ELSE Len(t) + 1

\* str.strip(): the bounds of t without its surrounding whitespace
RStripEnd(t, j) ==
    LET kept == {k \in 1..j : t[k] \notin Ws}
    IN  IF kept = {} THEN 0 ELSE Max(kept)

Strip(t) ==
    LET a == RunEnd(t, 1, Ws)
        b == RStripEnd(t, Len(t))
    IN  IF a > b THEN <<>> ELSE SubSeq(t, a, b)

LStrip(t) == SubSeq(t, RunEnd(t, 1, Ws), Len(t))

\* str.split(sep) for a one-character separator
Split(t, sep) ==
    LET cuts == {p \in 1..Len(t) : t[p] = sep}
        cut(n) == IF n = 0 THEN 0
                  ELSE IF n > Cardinality(cuts) THEN Len(t) + 1
                  ELSE CHOOSE p \in cuts : Cardinality({q \in cuts : q <= p}) = n
    IN  [n \in 1..(Cardinality(cuts) + 1) |-> SubSeq(t, cut(n - 1) + 1, cut(n) - 1)]

\* sep.join(parts)
RECURSIVE Join(_, _)
Join(parts, sep) ==
    IF parts = <<>> THEN <<>>
    ELSE IF Len(parts) = 1 THEN parts[1]
    ELSE parts[1] \o sep \o Join(Tail(parts), sep)

\* str.find(lit, from): the first index >= from at which lit occurs, or 0
Find(t, lit, from) ==
    LET hits == {p \in from..(Len(t) - Len(lit) + 1) : HasAt(t, p, lit)}
    IN  IF hits = {} THEN 0 ELSE Min(hits)

\* lit in t
Contains(t, lit) == Find(t, lit, 1) > 0

\* str.replace(old, new), old not empty
RECURSIVE ReplaceFrom(_, _, _, _)
ReplaceFrom(t, i, old, new) ==
    LET p == Find(t, old, i)
    IN  IF p = 0 THEN Slice(t, i, Len(t) + 1)
        ELSE Slice(t, i, p) \o new \o ReplaceFrom(t, p + Len(old), old, new)

Replace(t, old, new) == ReplaceFrom(t, 1, old, new)

\* str.startswith
StartsWith(t, lit) == HasAt(t, 1, lit)

\* the first index >= from of a character of class cls, or Len(t) + 1
FindCh(t, from, cls) ==
    LET hits == {j \in from..Len(t) : t[j] \in cls}
    IN  IF hits /= {} THEN Min(hits)
        ELSE IF from > Len(t) THEN from ELSE Len(t) + 1

\* f applied to every item of a sequence
Map(f(_), seq) == [n \in 1..Len(seq) |-> f(seq[n])]

\* ^ under re.MULTILINE
LineStart(t, i) == i = 1 \/ (i >= 2 /\ i <= Len(t) + 1 /\ t[i - 1] = "\n")

\* the end of -?\d+\.?\d* matched greedily at i, or 0
NumberEnd(t, i) ==
    LET d == IF i <= Len(t) /\ t[i] = "-" THEN i + 1 ELSE i
        e == RunEnd(t, d, Digit)
    IN  IF e = d THEN 0
        ELSE IF e <= Len(t) /\ t[e] = "." THEN RunEnd(t, e + 1, Digit)
        ELSE e

\* the end of (true|false|null|-?\d+\.?\d*) matched at i, or 0
ScalarEnd(t, i) ==
    IF HasAt(t, i, TrueLit) THEN i + Len(TrueLit)
    ELSE IF HasAt(t, i, FalseLit) THEN i + Len(FalseLit)
    ELSE IF HasAt(t, i, NullLit) THEN i + Len(NullLit)
    ELSE NumberEnd(t, i)

\* re.fullmatch(r'-?\d+\.?\d*', t)
FullNumber(t) == t /= <<>> /\ NumberEnd(t, 1) = Len(t) + 1

\* \s*\n\s* from i: the end of the whitespace run if it holds a newline, or 0
NewlineGapEnd(t, i) ==
    LET j == RunEnd(t, i, Ws)
    IN  IF \E k \in i..(j - 1) : t[k] = "\n" THEN j ELSE 0

\* \s*$ (re.MULTILINE) from e: the greedy end of the match, or 0
TailEnd(t, e) ==
    LET r == RunEnd(t, e, Ws)
        nl == {p \in e..(r - 1) : t[p] = "\n"}
    IN  IF r > Len(t) THEN Len(t) + 1
        ELSE IF nl = {} THEN 0
        ELSE CHOOSE p \in nl : \A q \in nl : q <= p

(***************************************************************************)
(* clean_and_load_json: the rewrite rules, each one re.sub over the text.  *)
(***************************************************************************)
\* a match of a rule's pattern: e its end (exclusive), out its replacement; e = 0
\* for no match
NoMatch == [e |-> 0, out |-> <<>>]

\* 1. re.sub(r'}\s*{', '}, {', text): the match at i
Rule1At(t, i) ==
    LET j == RunEnd(t, i + 1, Ws)
    IN  IF t[i] = "}" /\ j <= Len(t) /\ t[j] = "{"
        THEN [e |-> j + 1, out |-> <<"}", ",", " ", "{">>]
        ELSE NoMatch

\* 2. re.sub(r'(true|false|null|-?\d+\.?\d*)\s*\n\s*(true|false|null|-?\d+\.?\d*)',
\*           r'\1,\n\2', text): the match at i
Rule2At(t, i) ==
    LET e1 == ScalarEnd(t, i)
        j == IF e1 > 0 THEN NewlineGapEnd(t, e1) ELSE 0
        e2 == IF j > 0 THEN ScalarEnd(t, j) ELSE 0
    IN  IF e2 > 0
        THEN [e |-> e2, out |-> Slice(t, i, e1) \o <<",", "\n">> \o Slice(t, j, e2)]
        ELSE NoMatch

\* the position of the '=' that ends ^\s*([\w\s-]+)\s* started at i, or 0
KeyEnd(t, i) ==
    LET k == RunEnd(t, i, KeyCh)
    IN  IF LineStart(t, i) /\ k > i /\ k <= Len(t) /\ t[k] = "=" THEN k ELSE 0

\* group 1 of ^\s*([\w\s-]+)\s*= : the leading \s* is greedy, the key takes the rest
KeyGroup(t, i, k) ==
    LET a0 == RunEnd(t, i, Ws)
        a == IF a0 >= k THEN k - 1 ELSE a0
    IN  Slice(t, a, k)

\* the lazy value ([^{[]+?) from s followed by \s*$: the end of the value, or 0
ValueEnd(t, s, e) ==
    LET bad == FindCh(t, e - 1, {"{", "["})
        ends == {z \in e..bad : TailEnd(t, z) > 0}
    IN  IF ends = {} THEN 0 ELSE Min(ends)

\* the greedy \s* after '=' gives characters back until the value matches
ValueStart(t, q, s) ==
    LET starts == {z \in q..s : ValueEnd(t, z, z + 1) > 0}
    IN  IF starts = {} THEN 0 ELSE Max(starts)

quote_values_if_string(key, value) ==
    LET k == Strip(key)
        v == Strip(value)
    IN  IF v \in {TrueLit, FalseLit, NullLit} \/ FullNumber(v)
        THEN <<"\"">> \o k \o <<"\"", ":", " ">> \o v
        ELSE <<"\"">> \o k \o <<"\"", ":", " ", "\"">>
             \o Replace(v, <<"\"">>, <<"\\", "\"">>) \o <<"\"">>

\* 3. re.sub(r'^\s*([\w\s-]+)\s*=\s*([^{[]+?)\s*$', quote_values_if_string, text,
\*           flags=re.MULTILINE): the match at i
Rule3At(t, i) ==
    LET k == KeyEnd(t, i)
        s == IF k > 0 THEN ValueStart(t, k + 1, RunEnd(t, k + 1, Ws)) ELSE 0
        e == IF s > 0 THEN ValueEnd(t, s, s + 1) ELSE 0
    IN  IF e > 0
        THEN [e |-> TailEnd(t, e),
              out |-> quote_values_if_string(KeyGroup(t, i, k), Slice(t, s, e))]
        ELSE NoMatch

\* 4. re.sub(r'^\s*([\w\s-]+)\s*=\s*(true|false|null|-?\d+\.?\d*)\s*$', r'"\1": \2',
\*           text, flags=re.MULTILINE): the match at i
Rule4At(t, i) ==
    LET k == KeyEnd(t, i)
        s == IF k > 0 THEN RunEnd(t, k + 1, Ws) ELSE 0
        e == IF s > 0 THEN ScalarEnd(t, s) ELSE 0
        z == IF e > 0 THEN TailEnd(t, e) ELSE 0
    IN  IF z > 0
        THEN [e |-> z,
              out |-> <<"\"">> \o KeyGroup(t, i, k) \o <<"\"", ":", " ">> \o Slice(t, s, e)]
        ELSE NoMatch

\* 5. re.sub(r'^\s*([\w\s-]+)\s*=\s*({|\[)', r'"\1": \2', text, flags=re.MULTILINE):
\*    the match at i
Rule5At(t, i) ==
    LET k == KeyEnd(t, i)
        s == IF k > 0 THEN RunEnd(t, k + 1, Ws) ELSE 0
    IN  IF s > 0 /\ s <= Len(t) /\ t[s] \in {"{", "["}
        THEN [e |-> s + 1,
              out |-> <<"\"">> \o KeyGroup(t, i, k) \o <<"\"", ":", " ", t[s]>>]
        ELSE NoMatch

\* 6. re.sub(r'(["}\]]|true|false|null|-?\d+\.?\d*)\s*\n\s*"', r'\1,\n"', text):
\*    the match at i
Rule6At(t, i) ==
    LET e1 == IF t[i] \in {"\"", "}", "]"} THEN i + 1 ELSE ScalarEnd(t, i)
        j == IF e1 > 0 THEN NewlineGapEnd(t, e1) ELSE 0
    IN  IF j > 0 /\ j <= Len(t) /\ t[j] = "\""
        THEN [e |-> j + 1, out |-> Slice(t, i, e1) \o <<",", "\n", "\"">>]
        ELSE NoMatch

\* 7. re.sub(r',\s*([}\]])', r'\1', text): the match at i
Rule7At(t, i) ==
    LET j == RunEnd(t, i + 1, Ws)
    IN  IF t[i] = "," /\ j <= Len(t) /\ t[j] \in {"}", "]"}
        THEN [e |-> j + 1, out |-> <<t[j]>>]
        ELSE NoMatch

\* re.sub from i: the leftmost match is replaced, the scan goes on at its end
RECURSIVE SubFrom(_, _, _)
SubFrom(At(_, _), t, i) ==
    LET hits == {p \in i..Len(t) : At(t, p).e > 0}
        p == Min(hits)
    IN  IF hits = {} THEN Slice(t, i, Len(t) + 1)
        ELSE Slice(t, i, p) \o At(t, p).out \o SubFrom(At, t, At(t, p).e)

Rule1(t) == SubFrom(Rule1At, t, 1)

Rule2(t) == SubFrom(Rule2At, t, 1)

Rule3(t) == SubFrom(Rule3At, t, 1)

Rule4(t) == SubFrom(Rule4At, t, 1)

Rule5(t) == SubFrom(Rule5At, t, 1)

Rule6(t) == SubFrom(Rule6At, t, 1)

Rule7(t) == SubFrom(Rule7At, t, 1)

\* json_string = f"{{{text}}}"
Wrap(t) == <<"{">> \o t \o <<"}">>

(***************************************************************************)
(* json.loads, as clean_and_load_json calls it.  A Python value is a       *)
(* record [t |-> its type, v |-> its content]: the literal text of a       *)
(* number, the characters of a string, the items of a list, the            *)
(* <<key, value>> items of a dict in insertion order.                      *)
(***************************************************************************)
JsonWs == {" ", "\t", "\n", "\r"}

\* characters json.loads rejects inside a string (strict mode)
ControlCh == {"\n", "\t", "\r"}

HexCh == Digit \cup {"a", "b", "c", "d", "e", "f", "A", "B", "C", "D", "E", "F"}

PyNone == [t |-> "NoneType", v |-> <<>>]

PyTrue == [t |-> "bool", v |-> TrueLit]

PyFalse == [t |-> "bool", v |-> FalseLit]

PyStr(chars) == [t |-> "str", v |-> chars]

PyInt(chars) == [t |-> "int", v |-> chars]

PyFloat(chars) == [t |-> "float", v |-> chars]

PyList(items) == [t |-> "list", v |-> items]

PyDict(items) == [t |-> "dict", v |-> items]

\* d[key] = val on a dict's items
DictSet(items, key, val) ==
    IF \E n \in 1..Len(items) : items[n][1] = key
    THEN [n \in 1..Len(items) |->
             IF items[n][1] = key THEN <<key, val>> ELSE items[n]]
    ELSE Append(items, <<key, val>>)

\* key in d
DictHas(d, key) == \E n \in 1..Len(d.v) : d.v[n][1] = key

\* d[key], for a key that d has
DictGet(d, key) ==
    d.v[CHOOSE n \in 1..Len(d.v) : d.v[n][1] = key][2]

JsonFail == [ok |-> FALSE, val |-> PyNone, pos |-> 0]

JsonOk(val, pos) == [ok |-> TRUE, val |-> val, pos |-> pos]

\* the character a backslash escape stands for (json.decoder.BACKSLASH)
Unescape(c) ==
    CASE c = "n" -> "\n"
      [] c = "t" -> "\t"
      [] c = "r" -> "\r"
      [] c = "b" -> "\\b"
      [] c = "f" -> "\f"
      [] OTHER -> c

\* py_scanstring from i, the position after the opening quote; acc is the content
\* scanned so far
RECURSIVE ScanString(_, _, _)
ScanString(t, i, acc) ==
    LET p == FindCh(t, i, {"\"", "\\"} \cup ControlCh)
        chunk == acc \o Slice(t, i, p)
    IN  IF p > Len(t) THEN JsonFail
        ELSE IF t[p] = "\"" THEN JsonOk(PyStr(chunk), p + 1)
        ELSE IF t[p] \in ControlCh THEN JsonFail
        ELSE IF p + 1 > Len(t) THEN JsonFail
        ELSE IF t[p + 1] \in {"\"", "\\", "/", "b", "f", "n", "r", "t"}
             THEN ScanString(t, p + 2, Append(chunk, Unescape(t[p + 1])))
        ELSE IF /\ t[p + 1] = "u"
                /\ p + 5 <= Len(t)
                /\ \A k \in 2..5 : t[p + k] \in HexCh
             THEN ScanString(t, p + 6,
                      Append(chunk, "\\u" \o t[p + 2] \o t[p + 3] \o t[p + 4] \o t[p + 5]))
        ELSE JsonFail

\* NUMBER_RE = (-?(?:0|[1-9]\d*))(\.\d+)?([eE][-+]?\d+)? : the ends of the groups
JsonIntEnd(t, i) ==
    LET d == IF i <= Len(t) /\ t[i] = "-" THEN i + 1 ELSE i
    IN  IF d > Len(t) \/ t[d] \notin Digit THEN 0
        ELSE IF t[d] = "0" THEN d + 1
        ELSE RunEnd(t, d, Digit)

JsonFracEnd(t, e) ==
    IF e <= Len(t) /\ t[e] = "." /\ RunEnd(t, e + 1, Digit) > e + 1
    THEN RunEnd(t, e + 1, Digit)
    ELSE e

JsonExpEnd(t, e) ==
    IF e <= Len(t) /\ t[e] \in {"e", "E"}
    THEN LET s == IF e + 1 <= Len(t) /\ t[e + 1] \in {"-", "+"} THEN e + 2 ELSE e + 1
             r == RunEnd(t, s, Digit)
         IN  IF r > s THEN r ELSE e
    ELSE e

NaNLit == <<"N", "a", "N">>

InfinityLit == <<"I", "n", "f", "i", "n", "i", "t", "y">>

JsonSkipWs(t, i) == RunEnd(t, i, JsonWs)

RECURSIVE ScanOnce(_, _)
RECURSIVE JSONObject(_, _, _)
RECURSIVE JSONArray(_, _, _)

\* json.scanner.py_make_scanner._scan_once
ScanOnce(t, i) ==
    IF i > Len(t) THEN JsonFail
    ELSE IF t[i] = "\"" THEN ScanString(t, i + 1, <<>>)
    ELSE IF t[i] = "{" THEN
        LET j == JsonSkipWs(t, i + 1)
        IN  IF j <= Len(t) /\ t[j] = "}" THEN JsonOk(PyDict(<<>>), j + 1)
            ELSE IF j <= Len(t) /\ t[j] = "\"" THEN JSONObject(t, j + 1, <<>>)
            ELSE JsonFail
    ELSE IF t[i] = "[" THEN
        LET j == JsonSkipWs(t, i + 1)
        IN  IF j <= Len(t) /\ t[j] = "]" THEN JsonOk(PyList(<<>>), j + 1)
            ELSE JSONArray(t, j, <<>>)
    ELSE IF HasAt(t, i, NullLit) THEN JsonOk(PyNone, i + 4)
    ELSE IF HasAt(t, i, TrueLit) THEN JsonOk(PyTrue, i + 4)
    ELSE IF HasAt(t, i, FalseLit) THEN JsonOk(PyFalse, i + 5)
    ELSE IF JsonIntEnd(t, i) > 0 THEN
        LET e1 == JsonIntEnd(t, i)
            e2 == JsonFracEnd(t, e1)
            e3 == JsonExpEnd(t, e2)
        IN  IF e3 = e1 THEN JsonOk(PyInt(Slice(t, i, e1)), e1)
            ELSE JsonOk(PyFloat(Slice(t, i, e3)), e3)
    ELSE IF HasAt(t, i, NaNLit) THEN JsonOk(PyFloat(NaNLit), i + 3)
    ELSE IF HasAt(t, i, InfinityLit) THEN JsonOk(PyFloat(InfinityLit), i + 8)
    ELSE IF HasAt(t, i, <<"-">> \o InfinityLit)
         THEN JsonOk(PyFloat(<<"-">> \o InfinityLit), i + 9)
    ELSE JsonFail

\* json.decoder.JSONObject from i, the position after the opening quote of a key
JSONObject(t, i, items) ==
    LET key == ScanString(t, i, <<>>)
        c == JsonSkipWs(t, key.pos)
        val == ScanOnce(t, JsonSkipWs(t, c + 1))
        n == JsonSkipWs(t, val.pos)
        m == JsonSkipWs(t, n + 1)
    IN  IF ~key.ok THEN JsonFail
        ELSE IF c > Len(t) \/ t[c] /= ":" THEN JsonFail
        ELSE IF ~val.ok THEN JsonFail
        ELSE IF n > Len(t) THEN JsonFail
        ELSE IF t[n] = "}"
             THEN JsonOk(PyDict(DictSet(items, key.val.v, val.val)), n + 1)
        ELSE IF t[n] /= "," THEN JsonFail
        ELSE IF m <= Len(t) /\ t[m] = "\""
             THEN JSONObject(t, m + 1, DictSet(items, key.val.v, val.val))
        ELSE JsonFail

\* json.decoder.JSONArray from i, the position of an element
JSONArray(t, i, items) ==
    LET val == ScanOnce(t, i)
        n == JsonSkipWs(t, val.pos)
    IN  IF ~val.ok THEN JsonFail
        ELSE IF n > Len(t) THEN JsonFail
        ELSE IF t[n] = "]" THEN JsonOk(PyList(Append(items, val.val)), n + 1)
        ELSE IF t[n] /= "," THEN JsonFail
        ELSE JSONArray(t, JsonSkipWs(t, n + 1), Append(items, val.val))

\* json.loads(s): the value, or not ok for a JSONDecodeError
json_loads(t) ==
    LET r == ScanOnce(t, JsonSkipWs(t, 1))
    IN  IF r.ok /\ JsonSkipWs(t, r.pos) = Len(t) + 1 THEN r ELSE JsonFail

\* json.dumps(s) of a str (ensure_ascii): the quoted, escaped text
EscapeCh(c) ==
    CASE c = "\"" -> <<"\\", "\"">>
      [] c = "\\" -> <<"\\", "\\">>
      [] c = "\n" -> <<"\\", "n">>
      [] c = "\t" -> <<"\\", "t">>
      [] c = "\r" -> <<"\\", "r">>
      [] OTHER -> <<c>>

RECURSIVE DumpsFrom(_, _)
DumpsFrom(t, i) ==
    LET p == FindCh(t, i, {"\"", "\\", "\n", "\t", "\r"})
    IN  IF p > Len(t) THEN Slice(t, i, Len(t) + 1)
        ELSE Slice(t, i, p) \o EscapeCh(t[p]) \o DumpsFrom(t, p + 1)

json_dumps(t) == <<"\"">> \o DumpsFrom(t, 1) \o <<"\"">>

(***************************************************************************)
(* Numbers of the USB records.                                             *)
(***************************************************************************)
DigitVal(c) ==
    CASE c = "0" -> 0 [] c = "1" -> 1 [] c = "2" -> 2 [] c = "3" -> 3
      [] c = "4" -> 4 [] c = "5" -> 5 [] c = "6" -> 6 [] c = "7" -> 7
      [] c = "8" -> 8 [] c = "9" -> 9

\* the value of a run of decimal digits
RECURSIVE DigitsVal(_)
DigitsVal(ds) ==
    IF ds = <<>> THEN 0
    ELSE 10 * DigitsVal(SubSeq(ds, 1, Len(ds) - 1)) + DigitVal(ds[Len(ds)])

\* int(s) accepts, after strip(): a sign, then digits with single '_' between digits
IntDigitsOk(d) ==
    /\ d /= <<>>
    /\ \A n \in 1..Len(d) : d[n] \in Digit \cup {"_"}
    /\ d[1] \in Digit /\ d[Len(d)] \in Digit
    /\ \A n \in 1..(Len(d) - 1) : ~(d[n] = "_" /\ d[n + 1] = "_")

Unsigned(u) == IF u /= <<>> /\ u[1] \in {"+", "-"} THEN Tail(u) ELSE u

IsIntText(t) == IntDigitsOk(Unsigned(Strip(t)))

SignedVal(u, v) == IF u[1] = "-" THEN 0 - v ELSE v

StrippedVal(u) == SignedVal(u, DigitsVal(SelectSeq(Unsigned(u), LAMBDA c : c \in Digit)))

IntTextVal(t) == StrippedVal(Strip(t))

\* int(x) of a Python value: [exc, val]
PyIntOf(x) ==
    CASE x.t = "int" -> [exc |-> "", val |-> IntTextVal(x.v)]
      [] x.t = "bool" -> [exc |-> "", val |-> IF x = PyTrue THEN 1 ELSE 0]
      [] x.t = "str" ->
            IF IsIntText(x.v) THEN [exc |-> "", val |-> IntTextVal(x.v)]
            ELSE [exc |-> "ValueError", val |-> 0]
      [] x.t = "float" ->
            \* a literal without exponent truncates toward zero
            IF x.v[1] \in {"N", "I"} \/ Contains(x.v, InfinityLit)
            THEN [exc |-> IF x.v = NaNLit THEN "ValueError" ELSE "OverflowError",
                  val |-> 0]
            ELSE [exc |-> "",
                  val |-> IntTextVal(Slice(x.v, 1, FindCh(x.v, 1, {".", "e", "E"})))]
      [] OTHER -> [exc |-> "TypeError", val |-> 0]

\* calendar of datetime
IsLeap(y) == y % 4 = 0 /\ (y % 100 /= 0 \/ y % 400 = 0)

DaysInMonth(y, m) ==
    IF m = 2 THEN (IF IsLeap(y) THEN 29 ELSE 28)
    ELSE IF m \in {4, 6, 9, 11} THEN 30 ELSE 31

(***************************************************************************)
(* UsbDeviceManager (src/dumpstate/usb/__init__.py)                        *)
(***************************************************************************)
\* \s*\{(.*?)\} matched at j: group 1, or not found
BracedAt(t, j) ==
    LET k == RunEnd(t, j, Ws)
        c == FindCh(t, k + 1, {"}", "\n"})
    IN  IF k <= Len(t) /\ t[k] = "{" /\ c <= Len(t) /\ t[c] = "}"
        THEN [found |-> TRUE, content |-> Slice(t, k + 1, c)]
        ELSE [found |-> FALSE, content |-> <<>>]

UeventLit == <<"U", "E", "V", "E", "N", "T", ":">>

IntentColonLit == <<"i", "n", "t", "e", "n", "t", ":">>

IntentLit == <<"I", "n", "t", "e", "n", "t">>

HasExtrasLit == <<"(", "h", "a", "s", " ", "e", "x", "t", "r", "a", "s", ")">>

\* re.search(r'UEVENT:\s*\{(.*?)\}', details)
RECURSIVE UeventMatch(_, _)
UeventMatch(t, from) ==
    LET p == Find(t, UeventLit, from)
    IN  IF p = 0 THEN [found |-> FALSE, content |-> <<>>]
        ELSE IF BracedAt(t, p + Len(UeventLit)).found
             THEN BracedAt(t, p + Len(UeventLit))
        ELSE UeventMatch(t, p + 1)

\* re.search(r'intent:\s*Intent\s*\{(.*?)\}', details)
RECURSIVE IntentMatch(_, _)
IntentMatch(t, from) ==
    LET p == Find(t, IntentColonLit, from)
        j == RunEnd(t, p + Len(IntentColonLit), Ws)
    IN  IF p = 0 THEN [found |-> FALSE, content |-> <<>>]
        ELSE IF HasAt(t, j, IntentLit) /\ BracedAt(t, j + Len(IntentLit)).found
             THEN BracedAt(t, j + Len(IntentLit))
        ELSE IntentMatch(t, p + 1)

\* for pair in content.split(','): if '=' in pair: properties[key.strip()] = value.strip()
RECURSIVE UeventPairs(_, _)
UeventPairs(pairs, props) ==
    IF pairs = <<>> THEN props
    ELSE LET pair == Head(pairs)
             q == FindCh(pair, 1, {"="})
         IN  IF q <= Len(pair)
             THEN UeventPairs(Tail(pairs),
                      DictSet(props, Strip(Slice(pair, 1, q)),
                              PyStr(Strip(Slice(pair, q + 1, Len(pair) + 1)))))
             ELSE UeventPairs(Tail(pairs), props)

\* for match in re.finditer(r'(\w+)=([^\s}]+)', content): properties[group 1] = group 2
IntentPairAt(t, i) ==
    LET k == RunEnd(t, i, WordCh)
        e == FindCh(t, k + 1, Ws \cup {"}"})
    IN  IF k > i /\ k <= Len(t) /\ t[k] = "=" /\ e > k + 1 THEN e ELSE 0

RECURSIVE IntentPairs(_, _, _)
IntentPairs(t, i, props) ==
    LET hits == {p \in i..Len(t) : IntentPairAt(t, p) > 0}
        p == Min(hits)
        k == RunEnd(t, p, WordCh)
        e == IntentPairAt(t, p)
    IN  IF hits = {} THEN props
        ELSE IntentPairs(t, e, DictSet(props, Slice(t, p, k), PyStr(Slice(t, k + 1, e))))

_parse_event_details(details) ==
    LET uevent_match == UeventMatch(details, 1)
        intent_match == IntentMatch(details, 1)
        content == Strip(intent_match.content)
        typed == <<<<<<"e", "v", "e", "n", "t", "_", "t", "y", "p", "e">>,
                     PyStr(<<"i", "n", "t", "e", "n", "t">>)>>>>
        pairs == IntentPairs(content, 1, typed)
    IN  IF uevent_match.found
        THEN PyDict(UeventPairs(Split(uevent_match.content, ","),
                 <<<<<<"e", "v", "e", "n", "t", "_", "t", "y", "p", "e">>,
                     PyStr(<<"u", "e", "v", "e", "n", "t">>)>>>>))
        ELSE IF intent_match.found
        THEN PyDict(IF Contains(content, HasExtrasLit)
                    THEN DictSet(pairs, <<"e", "x", "t", "r", "a", "s">>, PyTrue)
                    ELSE pairs)
        ELSE PyDict(<<>>)

\* re.match(r'(\d{2}-\d{2}\s\d{2}:\d{2}:\d{2}:\d{3})\s(.*?)$', usb_event)
TsMatch(t) ==
    LET digits == {1, 2, 4, 5, 7, 8, 10, 11, 13, 14, 16, 17, 18}
        rest == Slice(t, 20, Len(t) + 1)
        nl == FindCh(rest, 1, {"\n"})
    IN  IF /\ Len(t) >= 19
           /\ \A n \in digits : t[n] \in Digit
           /\ t[3] = "-" /\ t[6] \in Ws /\ t[9] = ":" /\ t[12] = ":" /\ t[15] = ":"
           /\ t[19] \in Ws
           /\ nl >= Len(rest)
        THEN [found |-> TRUE, ts |-> Slice(t, 1, 19), details |-> Slice(rest, 1, nl)]
        ELSE [found |-> FALSE, ts |-> <<>>, details |-> <<>>]

\* datetime.strptime(f"{year}-{ts}", '%Y-%m-%d %H:%M:%S:%f') does not raise ValueError
TsValid(year, ts) ==
    LET month == DigitsVal(Slice(ts, 1, 3))
        day == DigitsVal(Slice(ts, 4, 6))
    IN  /\ month \in 1..12
        /\ day \in 1..DaysInMonth(year, month)
        /\ DigitsVal(Slice(ts, 7, 9)) <= 23
        /\ DigitsVal(Slice(ts, 10, 12)) <= 59
        /\ DigitsVal(Slice(ts, 13, 15)) <= 59

\* the items a for loop (or len) gets from a Python value, or a TypeError
PyIter(x) ==
    CASE x.t = "list" -> [exc |-> "", items |-> x.v]
      [] x.t = "str" -> [exc |-> "", items |-> [n \in 1..Len(x.v) |-> PyStr(<<x.v[n]>>)]]
      [] x.t = "dict" -> [exc |-> "", items |-> [n \in 1..Len(x.v) |-> PyStr(x.v[n][1])]]
      [] OTHER -> [exc |-> "TypeError", items |-> <<>>]

\* key in x, for a str key: "yes", "no" or "TypeError"
PyIn(x, key) ==
    CASE x.t = "dict" -> IF DictHas(x, key) THEN "yes" ELSE "no"
      [] x.t = "str" -> IF Contains(x.v, key) THEN "yes" ELSE "no"
      [] x.t = "list" ->
            IF \E n \in 1..Len(x.v) : x.v[n].t = "str" /\ x.v[n].v = key
            THEN "yes" ELSE "no"
      [] OTHER -> "TypeError"

\* the loop of UsbDeviceManager.add_events: the events appended, and the exception
\* that ended the loop early
RECURSIVE add_events_loop(_, _, _)
add_events_loop(items, year, events) ==
    IF items = <<>> THEN [exc |-> "", events |-> events]
    ELSE LET usb_event == Head(items)
             ts_match == TsMatch(usb_event.v)
         IN  IF usb_event.t /= "str" THEN [exc |-> "TypeError", events |-> events]
             ELSE IF ~ts_match.found THEN add_events_loop(Tail(items), year, events)
             ELSE IF ~TsValid(year, ts_match.ts)
                  THEN [exc |-> "ValueError", events |-> events]
             ELSE add_events_loop(Tail(items), year,
                      Append(events,
                          [timestamp |-> [year |-> year, ts |-> ts_match.ts],
                           details |-> _parse_event_details(ts_match.details)]))

add_events(events_arg, year, events) ==
    IF PyIter(events_arg).exc /= "" THEN [exc |-> "TypeError", events |-> events]
    ELSE add_events_loop(PyIter(events_arg).items, year, events)

HandlerKey == <<"h", "a", "n", "d", "l", "e", "r">>

UsbEventKey == <<"U", "S", "B", " ", "E", "v", "e", "n", "t">>

\* UsbDeviceManager(): the dataclass defaults
NewUsbDeviceManager == [handler_properties |-> PyDict(<<>>), events |-> <<>>]

\* UsbDeviceManager.extract_data: the manager as the call leaves it, and the
\* exception it raised
UsbDeviceManager_extract_data(self, json_data, year) ==
    LET hasHandler == PyIn(json_data, HandlerKey)
        withHandler ==
            IF hasHandler = "yes"
            THEN [self EXCEPT !.handler_properties = DictGet(json_data, HandlerKey)]
            ELSE self
        hasEvents == PyIn(json_data, UsbEventKey)
        added == add_events(DictGet(json_data, UsbEventKey), year, withHandler.events)
    IN  IF hasHandler = "TypeError" THEN [exc |-> "TypeError", self |-> self]
        ELSE IF hasHandler = "yes" /\ json_data.t /= "dict"
             THEN [exc |-> "TypeError", self |-> self]
        ELSE IF hasEvents = "no" THEN [exc |-> "", self |-> withHandler]
        ELSE IF json_data.t /= "dict" THEN [exc |-> "TypeError", self |-> withHandler]
        ELSE [exc |-> added.exc, self |-> [withHandler EXCEPT !.events = added.events]]

(***************************************************************************)
(* UsbConnection, UsbHostManager                                           *)
(***************************************************************************)
\* props.get(key, default) on a dict
DictGetOr(d, key, default) == IF DictHas(d, key) THEN DictGet(d, key) ELSE default

Key_device_address ==
    <<"d", "e", "v", "i", "c", "e", "_", "a", "d", "d", "r", "e", "s", "s">>

Key_mode == <<"m", "o", "d", "e">>

Key_timestamp == <<"t", "i", "m", "e", "s", "t", "a", "m", "p">>

Key_manufacturer == <<"m", "a", "n", "u", "f", "a", "c", "t", "u", "r", "e", "r">>

Key_product == <<"p", "r", "o", "d", "u", "c", "t">>

Key_num_connects == <<"n", "u", "m", "_", "c", "o", "n", "n", "e", "c", "t", "s">>

Key_connections == <<"c", "o", "n", "n", "e", "c", "t", "i", "o", "n", "s">>

Key_device_manager ==
    <<"d", "e", "v", "i", "c", "e", "_", "m", "a", "n", "a", "g", "e", "r">>

Key_host_manager == <<"h", "o", "s", "t", "_", "m", "a", "n", "a", "g", "e", "r">>

\* UsbConnection.parse(props) on a fresh UsbConnection, given int(props.get('mode', -1))
\* and int(props.get('timestamp', 0)): [exc, uc]
UsbConnection_fields(props, mode, timestamp_ms) ==
    IF mode.exc /= "" THEN [exc |-> mode.exc, uc |-> PyNone]
    ELSE IF timestamp_ms.exc /= "" THEN [exc |-> timestamp_ms.exc, uc |-> PyNone]
    ELSE [exc |-> "",
          uc |-> [device_address |-> DictGetOr(props, Key_device_address, PyNone),
                  mode |-> mode.val,
                  timestamp |-> IF timestamp_ms.val /= 0
                                THEN [t |-> "datetime", v |-> timestamp_ms.val]
                                ELSE PyNone,
                  manufacturer |-> DictGetOr(props, Key_manufacturer, PyNone),
                  product |-> DictGetOr(props, Key_product, PyNone)]]

UsbConnection_parse(props) ==
    IF props.t /= "dict" THEN [exc |-> "AttributeError", uc |-> PyNone]
    ELSE UsbConnection_fields(props,
             PyIntOf(DictGetOr(props, Key_mode, PyInt(<<"-", "1">>))),
             PyIntOf(DictGetOr(props, Key_timestamp, PyInt(<<"0">>))))

\* the loop of UsbHostManager.extract_data over parsed_json_data['connections']
connections_step(r, connections) ==
    IF r.exc /= "" THEN [exc |-> r.exc, connections |-> connections]
    ELSE [exc |-> "", connections |-> Append(connections, r.uc)]

RECURSIVE connections_loop(_, _)
connections_loop(items, done) ==
    IF items = <<>> \/ done.exc /= "" THEN done
    ELSE connections_loop(Tail(items),
             connections_step(UsbConnection_parse(Head(items)), done.connections))

\* UsbHostManager(): the dataclass defaults
NewUsbHostManager == [num_connects |-> PyInt(<<"0">>), connections |-> <<>>]

\* UsbHostManager.extract_data: the manager as the call leaves it, and the exception
UsbHostManager_connections(self, iter) ==
    IF iter.exc /= "" THEN [exc |-> iter.exc, connections |-> self.connections]
    ELSE connections_loop(iter.items, [exc |-> "", connections |-> self.connections])

UsbHostManager_result(counted, looped) ==
    [exc |-> looped.exc, self |-> [counted EXCEPT !.connections = looped.connections]]

UsbHostManager_counted(self, json_data) ==
    [self EXCEPT !.num_connects = DictGetOr(json_data, Key_num_connects, PyNone)]

UsbHostManager_extract_data(self, json_data) ==
    IF json_data.t /= "dict" THEN [exc |-> "AttributeError", self |-> self]
    ELSE IF ~DictHas(json_data, Key_connections)
         THEN [exc |-> "", self |-> UsbHostManager_counted(self, json_data)]
    ELSE UsbHostManager_result(UsbHostManager_counted(self, json_data),
             UsbHostManager_connections(self,
                 PyIter(DictGet(json_data, Key_connections))))

(***************************************************************************)
(* parse_usb_manager_state (src/dumpstate/usb/__init__.py), one action per *)
(* step of the function.  Indices are Python's (0-based).                  *)
(***************************************************************************)
UsbAnchor ==
    <<"U", "S", "B", " ", "M", "A", "N", "A", "G", "E", "R", " ", "S", "T", "A", "T",
      "E", " ", "(", "d", "u", "m", "p", "s", "y", "s", " ", "u", "s", "b", ")", ":",
      "\n">>

EventLogOpen == <<"U", "S", "B", " ", "E", "v", "e", "n", "t", "=", "[", "\n">>

RestrictorLabel ==
    <<"U", "S", "B", " ", "H", "o", "s", "t", " ", "R", "e", "s", "t", "r", "i", "c",
      "t", "o", "r", " ", "S", "t", "a", "t", "e", ":", "\n">>

\* UsbManagerData(): the dataclass defaults
NewUsbManagerData ==
    [restrictor_state |-> <<>>, device_manager |-> PyNone, host_manager |-> PyNone]

\* re.search(rb'USB MANAGER STATE \(dumpsys usb\):\n(.*?)(?=\n\n\n|\Z)', raw, re.DOTALL)
UsbSectionMatch(t) ==
    LET p == Find(t, UsbAnchor, 1)
        a == p + Len(UsbAnchor)
        q == Find(t, <<"\n", "\n", "\n">>, a)
    IN  IF p = 0 THEN [found |-> FALSE, group1 |-> <<>>]
        ELSE [found |-> TRUE,
              group1 |-> Slice(t, a, IF q = 0 THEN Len(t) + 1 ELSE q)]

\* the first q >= from where \n\s+\] matches: [q, the index of the ']'], or q = 0
RECURSIVE EventLogClose(_, _)
EventLogClose(t, from) ==
    LET q == FindCh(t, from, {"\n"})
        j == RunEnd(t, q + 1, Ws)
    IN  IF q > Len(t) THEN [q |-> 0, j |-> 0]
        ELSE IF j > q + 1 /\ j <= Len(t) /\ t[j] = "]" THEN [q |-> q, j |-> j]
        ELSE EventLogClose(t, q + 1)

\* re.search(r'(USB Event=\[\n(.*?)\n\s+\])', block, re.DOTALL)
EventLogMatch(t) ==
    LET p == Find(t, EventLogOpen, 1)
        a == p + Len(EventLogOpen)
        c == EventLogClose(t, a)
    IN  IF p = 0 \/ c.q = 0 THEN [found |-> FALSE, group1 |-> <<>>, group2 |-> <<>>]
        ELSE [found |-> TRUE, group1 |-> Slice(t, p, c.j + 1), group2 |-> Slice(t, a, c.q)]

\* f'"USB Event": [{", ".join(json_escaped_lines)}]'
ValidJsonEvents(lines) ==
    <<"\"">> \o UsbEventKey \o <<"\"", ":", " ", "[">>
    \o Join([n \in 1..Len(lines) |-> json_dumps(Strip(lines[n]))], <<",", " ">>)
    \o <<"]">>

\* re.search(r'USB Host Restrictor State:\n(.*?)(?=\n[A-Z])', block, re.DOTALL)
RECURSIVE RestrictorClose(_, _)
RestrictorClose(t, from) ==
    LET q == FindCh(t, from, {"\n"})
    IN  IF q > Len(t) THEN 0
        ELSE IF q + 1 <= Len(t) /\ t[q + 1] \in Upper THEN q
        ELSE RestrictorClose(t, q + 1)

RestrictorMatch(t) ==
    LET p == Find(t, RestrictorLabel, 1)
        a == p + Len(RestrictorLabel)
        q == RestrictorClose(t, a)
    IN  IF p = 0 \/ q = 0 THEN [found |-> FALSE, group1 |-> <<>>]
        ELSE [found |-> TRUE, group1 |-> Slice(t, a, q)]

\* for line in lines: if ':' in line: restrictor_state[key.strip()] = val.strip()
RECURSIVE RestrictorLines(_, _)
RestrictorLines(lines, state) ==
    IF lines = <<>> THEN state
    ELSE LET line == Head(lines)
             c == FindCh(line, 1, {":"})
         IN  IF c <= Len(line)
             THEN RestrictorLines(Tail(lines),
                      DictSet(state, Strip(Slice(line, 1, c)),
                              Strip(Slice(line, c + 1, Len(line) + 1))))
             ELSE RestrictorLines(Tail(lines), state)

\* re.search(r'^\s*{', block, re.MULTILINE).start(), 0-based, or -1; n is where the
\* search begins
StartMatch(t, n) ==
    LET hits == {p \in n..Len(t) :
                    /\ LineStart(t, p)
                    /\ RunEnd(t, p, Ws) <= Len(t)
                    /\ t[RunEnd(t, p, Ws)] = "{"}
    IN  IF hits = {} THEN -1 ELSE Min(hits) - 1

usbLocals == <<event_lines, list_events, start_index, scan_i, brace_level, end_index,
               json_like_content, text, parsed_json_data>>

UsbSearch ==
    /\ pc = "search"
    /\ LET match == UsbSectionMatch(raw)
           stripped == Strip(match.group1)
       IN  IF ~match.found \/ stripped = <<>>
           THEN /\ result' = "None"
                /\ pc' = "done"
                /\ UNCHANGED <<block, data>>
           ELSE /\ block' = stripped
                /\ data' = NewUsbManagerData
                /\ pc' = "event_log"
                /\ UNCHANGED result
    /\ UNCHANGED nonUsbVars
    /\ UNCHANGED <<raw, now_year, usbLocals, warnings, raised>>

UsbEventLog ==
    /\ pc = "event_log"
    /\ LET event_log_match == EventLogMatch(block)
           lines == Split(Strip(event_log_match.group2), "\n")
       IN  IF event_log_match.found
           THEN /\ event_lines' = lines
                /\ block' = Replace(block, event_log_match.group1, ValidJsonEvents(lines))
           ELSE UNCHANGED <<event_lines, block>>
    /\ pc' = "restrictor"
    /\ UNCHANGED nonUsbVars
    /\ UNCHANGED <<raw, now_year, list_events, data, start_index, scan_i, brace_level,
                   end_index, json_like_content, text, parsed_json_data, warnings,
                   raised, result>>

UsbRestrictor ==
    /\ pc = "restrictor"
    /\ LET restrictor_match == RestrictorMatch(block)
       IN  IF restrictor_match.found
           THEN data' = [data EXCEPT !.restrictor_state =
                            RestrictorLines(Split(Strip(restrictor_match.group1), "\n"), @)]
           ELSE UNCHANGED data
    /\ pc' = "start_match"
    /\ UNCHANGED nonUsbVars
    /\ UNCHANGED <<raw, now_year, block, usbLocals, warnings, raised, result>>

UsbStartMatch ==
    /\ pc = "start_match"
    /\ IF StartMatch(block, 1) >= 0
       THEN /\ start_index' = StartMatch(block, 1)
            /\ brace_level' = 0
            /\ end_index' = -1
            /\ scan_i' = 0
            /\ pc' = "scan"
       ELSE /\ pc' = "return"
            /\ UNCHANGED <<start_index, brace_level, end_index, scan_i>>
    /\ UNCHANGED nonUsbVars
    /\ UNCHANGED <<raw, now_year, block, event_lines, list_events, data,
                   json_like_content, text, parsed_json_data, warnings, raised, result>>

\* one iteration of: for i, char in enumerate(block[start_index:])
UsbScan ==
    /\ pc = "scan"
    /\ IF start_index + scan_i >= Len(block)
       THEN /\ pc' = "after_scan"
            /\ UNCHANGED <<scan_i, brace_level, end_index>>
       ELSE LET char == block[start_index + scan_i + 1]
                level == IF char = "{" THEN brace_level + 1
                         ELSE IF char = "}" THEN brace_level - 1
                         ELSE brace_level
            IN  /\ brace_level' = level
                /\ IF level = 0
                   THEN /\ end_index' = start_index + scan_i
                        /\ pc' = "after_scan"
                        /\ UNCHANGED scan_i
                   ELSE /\ scan_i' = scan_i + 1
                        /\ UNCHANGED <<end_index, pc>>
    /\ UNCHANGED nonUsbVars
    /\ UNCHANGED <<raw, now_year, block, event_lines, list_events, data, start_index,
                   json_like_content, text, parsed_json_data, warnings, raised, result>>

\* the statements after the scan with the rest of the block taken as the body when no
\* closing brace was found
UsbAfterScanToEnd ==
    /\ pc = "after_scan"
    /\ json_like_content' = Slice(block, start_index + 2,
                                  IF end_index /= -1 THEN end_index + 1 ELSE Len(block) + 1)
    /\ text' = json_like_content'
    /\ pc' = "rule1"
    /\ UNCHANGED nonUsbVars
    /\ UNCHANGED <<raw, now_year, block, event_lines, list_events, data, start_index, scan_i,
                   brace_level, end_index, parsed_json_data, warnings, raised, result>>

UsbAfterScan ==
    /\ pc = "after_scan"
    /\ IF end_index /= -1
       THEN /\ json_like_content' = Slice(block, start_index + 2, end_index + 1)
            /\ text' = Slice(block, start_index + 2, end_index + 1)
            /\ pc' = "rule1"
       ELSE /\ pc' = "return"
            /\ UNCHANGED <<json_like_content, text>>
    /\ UNCHANGED nonUsbVars
    /\ UNCHANGED <<raw, now_year, block, event_lines, list_events, data, start_index, scan_i,
                   brace_level, end_index, parsed_json_data, warnings, raised, result>>

\* one rule of clean_and_load_json
CleanStep(at, rule(_), next) ==
    /\ pc = at
    /\ text' = rule(text)
    /\ pc' = next
    /\ UNCHANGED nonUsbVars
    /\ UNCHANGED <<raw, now_year, block, event_lines, list_events, data, start_index, scan_i,
                   brace_level, end_index, json_like_content, parsed_json_data,
                   warnings, raised, result>>

CleanRule1 == CleanStep("rule1", Rule1, "rule2")

CleanRule2 == CleanStep("rule2", Rule2, "rule3")

CleanRule3 == CleanStep("rule3", Rule3, "rule4")

CleanRule4 == CleanStep("rule4", Rule4, "rule5")

CleanRule5 == CleanStep("rule5", Rule5, "rule6")

CleanRule6 == CleanStep("rule6", Rule6, "rule7")

CleanRule7 == CleanStep("rule7", Rule7, "load")

\* json.loads(json_string); its JSONDecodeError becomes a ValueError that
\* parse_usb_manager_state catches and logs
CleanLoad ==
    /\ pc = "load"
    /\ LET loaded == json_loads(Wrap(text))
       IN  IF loaded.ok
           THEN /\ parsed_json_data' = loaded.val
                /\ pc' = "device_manager"
                /\ UNCHANGED warnings
           ELSE /\ warnings' = Append(warnings, "ValueError")
                /\ pc' = "return"
                /\ UNCHANGED parsed_json_data
    /\ UNCHANGED nonUsbVars
    /\ UNCHANGED <<raw, now_year, block, event_lines, list_events, data, start_index, scan_i,
                   brace_level, end_index, json_like_content, text, raised, result>>

\* how parse_usb_manager_state goes on after an exception inside its try block
AfterTry(exc, next) ==
    /\ pc' = IF exc = "" THEN next ELSE IF exc = "ValueError" THEN "return" ELSE "done"
    /\ warnings' = IF exc = "ValueError" THEN Append(warnings, exc) ELSE warnings
    /\ raised' = IF exc \notin {"", "ValueError"} THEN exc ELSE raised

\* data.device_manager = UsbDeviceManager(); data.device_manager.extract_data(arg),
\* r being what extract_data did
UsbDeviceManagerDone(arg, r) ==
    /\ data' = [data EXCEPT !.device_manager = [t |-> "UsbDeviceManager", v |-> r.self]]
    /\ list_events' = IF arg.t = "dict" /\ DictHas(arg, UsbEventKey)
                      THEN DictGet(arg, UsbEventKey)
                      ELSE list_events
    /\ AfterTry(r.exc, "host_manager")

UsbDeviceManagerCall(arg) ==
    UsbDeviceManagerDone(arg,
        UsbDeviceManager_extract_data(NewUsbDeviceManager, arg, now_year))

UsbDeviceManagerStep ==
    /\ pc = "device_manager"
    /\ IF DictHas(parsed_json_data, Key_device_manager)
       THEN UsbDeviceManagerCall(DictGet(parsed_json_data, Key_device_manager))
       ELSE /\ AfterTry("", "host_manager")
            /\ UNCHANGED <<data, list_events>>
    /\ UNCHANGED nonUsbVars
    /\ UNCHANGED <<raw, now_year, block, event_lines, start_index, scan_i, brace_level,
                   end_index, json_like_content, text, parsed_json_data, result>>

\* data.host_manager = UsbHostManager(); data.host_manager.extract_data(...), r being
\* what extract_data did
UsbHostManagerDone(r) ==
    /\ data' = [data EXCEPT !.host_manager = [t |-> "UsbHostManager", v |-> r.self]]
    /\ AfterTry(r.exc, "return")

UsbHostManagerStep ==
    /\ pc = "host_manager"
    /\ IF DictHas(parsed_json_data, Key_host_manager)
       THEN UsbHostManagerDone(
                UsbHostManager_extract_data(NewUsbHostManager,
                    DictGet(parsed_json_data, Key_host_manager)))
       ELSE /\ AfterTry("", "return")
            /\ UNCHANGED data
    /\ UNCHANGED nonUsbVars
    /\ UNCHANGED <<raw, now_year, block, event_lines, list_events, start_index, scan_i,
                   brace_level, end_index, json_like_content, text, parsed_json_data,
                   result>>

UsbReturn ==
    /\ pc = "return"
    /\ result' = "data"
    /\ pc' = "done"
    /\ UNCHANGED nonUsbVars
    /\ UNCHANGED <<raw, now_year, block, usbLocals, data, warnings, raised>>

(***************************************************************************)
(* The reports parse_usb_manager_state is run on: the section anchor, the  *)
(* restrictor block, then a brace block whose body is a list of            *)
(* `key=value` lines, an array of bare scalars, a device manager with its  *)
(* event log, or a host manager with its connections.                      *)
(***************************************************************************)
MaxKv == 2

MinElems == 2

MaxElems == 3

MaxEvents == 2

NowYears == {2024, 2026}

\* the sequences over S of lo..hi items
SeqsOf(S, lo, hi) == UNION {[1..n -> S] : n \in lo..hi}

Lines(ls) == Join(ls, <<"\n">>)

ReportHead ==
    <<"-", "-", "-", "-", "-", "-", " ", "x", " ", "-", "-", "-", "-", "-", "-", "\n">>

ReportTail ==
    <<"\n", "\n", "\n", "-", "-", "-", "-", "-", "-", " ", "y", " ", "-", "-", "-",
      "-", "-", "-", "\n">>

RestrictorBlock ==
    <<"U", "S", "B", " ", "H", "o", "s", "t", " ", "R", "e", "s", "t", "r", "i", "c",
      "t", "o", "r", " ", "S", "t", "a", "t", "e", ":", "\n", " ", " ", "l", "o", "c",
      "k", "e", "d", ":", " ", "1", "\n", "U", "S", "B", " ", "M", "a", "n", "a", "g",
      "e", "r", " ", "S", "t", "a", "t", "e", ":", "\n">>

\* well-formed and awkward `key=value` lines
KvLines ==
    {
    <<"a", "=", "1">>,
    <<"b", "=", "t", "r", "u", "e">>,
    <<"c", "=", "x", " ", "y">>,
    <<"2", "g", "=", "n", "o">>,
    <<"n", "=", "n", "u", "l", "l">>,
    <<"n", "u", "l", "l", "_", "c", "=", "3">>,
    <<"d", "=", "-", "2", ".", "5">>
    }

\* bare scalars
ArrayElems ==
    {
    <<"1">>,
    <<"t", "r", "u", "e">>,
    <<"n", "u", "l", "l">>
    }

\* lines of the USB Event log
EventLogLines ==
    {
    <<"0", "1", "-", "0", "2", " ", "0", "3", ":", "0", "4", ":", "0", "5", ":", "0",
      "0", "6", " ", "x", "}", " ", "{", "y">>,
    <<"0", "1", "-", "0", "2", " ", "0", "3", ":", "0", "4", ":", "0", "5", ":", "0",
      "0", "7", " ", "{", "a", ",", " ", "}">>,
    <<"0", "1", "-", "0", "2", " ", "0", "3", ":", "0", "4", ":", "0", "5", ":", "0",
      "0", "8", " ", "U", "S", "B", " ", "U", "E", "V", "E", "N", "T", ":", " ", "{",
      "A", "=", "b", "}">>,
    <<"0", "2", "-", "2", "9", " ", "0", "0", ":", "0", "0", ":", "0", "0", ":", "0",
      "0", "0", " ", "i", "n", "t", "e", "n", "t", ":", " ", "I", "n", "t", "e", "n",
      "t", " ", "{", " ", "a", "c", "t", "=", "x", " ", "}">>,
    <<"b", "o", "o", "t">>
    }

\* what precedes the opening brace: nothing, an indentation, a blank line
PreBrace ==
    {
    <<>>,
    <<" ", " ">>,
    <<"\n">>
    }

Report(pre, body) ==
    ReportHead \o UsbAnchor \o RestrictorBlock \o pre \o <<"{", "\n">> \o body
    \o <<"\n", "}">> \o ReportTail

KvBody(ls) == Lines(ls)

ArrayBody(ls) ==
    Lines(<<<<"a", "r", "r", "=", "[">>>> \o ls \o <<<<"]">>>>)

EventBody(ls) ==
    Lines(<<<<"d", "e", "v", "i", "c", "e", "_", "m", "a", "n", "a", "g", "e", "r", "=", "{">>,
            <<"h", "a", "n", "d", "l", "e", "r", "=", "{">>,
            <<"f", "=", "m", "t", "p">>,
            <<"}">>,
            <<"U", "S", "B", " ", "E", "v", "e", "n", "t", "=", "[">>>>
          \o [n \in 1..Len(ls) |-> <<" ", " ">> \o ls[n]]
          \o <<<<" ", " ", "]">>, <<"}">>>>)

HostBody(mode) ==
    Lines(<<<<"h", "o", "s", "t", "_", "m", "a", "n", "a", "g", "e", "r", "=", "{">>,
            <<"n", "u", "m", "_", "c", "o", "n", "n", "e", "c", "t", "s", "=", "1">>,
            <<"c", "o", "n", "n", "e", "c", "t", "i", "o", "n", "s", "=", "[">>,
            <<"{">>,
            <<"d", "e", "v", "i", "c", "e", "_", "a", "d", "d", "r", "e", "s", "s", "=", "/", "d", "e", "v", "/", "1">>,
            <<"m", "o", "d", "e", "=">> \o mode,
            <<"}">>, <<"]">>, <<"}">>>>)

BothBody ==
    Lines(<<<<"d", "e", "v", "i", "c", "e", "_", "m", "a", "n", "a", "g", "e", "r", "=", "{">>,
            <<"h", "a", "n", "d", "l", "e", "r", "=", "{">>,
            <<"f", "=", "m", "t", "p">>,
            <<"}">>,
            <<"}">>,
            <<"h", "o", "s", "t", "_", "m", "a", "n", "a", "g", "e", "r", "=", "{">>,
            <<"n", "u", "m", "_", "c", "o", "n", "n", "e", "c", "t", "s", "=", "0">>,
            <<"}">>>>)

ScenarioBodies == {HostBody(<<"0">>), HostBody(<<"a", "b", "c">>), BothBody}

\* reports without the section, with an empty section, with an unterminated brace
\* block, and without a brace block
OddReports ==
    {
    <<"-", "-", "-", "-", "-", "-", " ", "x", " ", "-", "-", "-", "-", "-", "-", "\n",
      "h", "e", "l", "l", "o", "\n">>,
    <<"U", "S", "B", " ", "M", "A", "N", "A", "G", "E", "R", " ", "S", "T", "A", "T",
      "E", " ", "(", "d", "u", "m", "p", "s", "y", "s", " ", "u", "s", "b", ")", ":",
      "\n", "\n", "\n", "\n">>,
    <<"U", "S", "B", " ", "M", "A", "N", "A", "G", "E", "R", " ", "S", "T", "A", "T",
      "E", " ", "(", "d", "u", "m", "p", "s", "y", "s", " ", "u", "s", "b", ")", ":",
      "\n", "U", "S", "B", " ", "H", "o", "s", "t", " ", "R", "e", "s", "t", "r", "i",
      "c", "t", "o", "r", " ", "S", "t", "a", "t", "e", ":", "\n", " ", " ", "l", "o",
      "c", "k", "e", "d", ":", " ", "1", "\n", "U", "S", "B", " ", "M", "a", "n", "a",
      "g", "e", "r", " ", "S", "t", "a", "t", "e", ":", "\n", "{", "\n", "a", "=", "1",
      "\n">>,
    <<"U", "S", "B", " ", "M", "A", "N", "A", "G", "E", "R", " ", "S", "T", "A", "T",
      "E", " ", "(", "d", "u", "m", "p", "s", "y", "s", " ", "u", "s", "b", ")", ":",
      "\n", "U", "S", "B", " ", "H", "o", "s", "t", " ", "R", "e", "s", "t", "r", "i",
      "c", "t", "o", "r", " ", "S", "t", "a", "t", "e", ":", "\n", " ", " ", "l", "o",
      "c", "k", "e", "d", ":", " ", "1", "\n", "U", "S", "B", " ", "M", "a", "n", "a",
      "g", "e", "r", " ", "S", "t", "a", "t", "e", ":", "\n", "a", "=", "1", "\n">>
    }

\* brace blocks that the report ends inside: two levels deep, and one level deep after
\* an inner block that is closed
UnterminatedReports ==
    {ReportHead \o UsbAnchor \o RestrictorBlock \o body :
        body \in {<<"{", "\n", "d", "e", "v", "i", "c", "e", "_", "m", "a", "n", "a", "g", "e", "r",
          "=", "{", "\n", "a", "=", "1", "\n">>,
                  <<"{", "\n", "d", "e", "v", "i", "c", "e", "_", "m", "a", "n", "a", "g", "e", "r",
          "=", "{", "\n", "a", "=", "1", "\n", "}", "\n", "b", "=", "2", "\n">>}}

UsbReports ==
    UnterminatedReports
    \cup {Report(<<>>, KvBody(ls)) : ls \in SeqsOf(KvLines, 1, MaxKv)}
    \cup {Report(<<>>, ArrayBody(ls)) : ls \in SeqsOf(ArrayElems, MinElems, MaxElems)}
    \cup {Report(<<>>, EventBody(ls)) : ls \in SeqsOf(EventLogLines, 1, MaxEvents)}
    \cup {Report(pre, body) : pre \in PreBrace, body \in ScenarioBodies}
    \cup OddReports

UsbNext ==
    \/ UsbSearch
    \/ UsbEventLog
    \/ UsbRestrictor
    \/ UsbStartMatch
    \/ UsbScan
    \/ UsbAfterScan
    \/ CleanRule1
    \/ CleanRule2
    \/ CleanRule3
    \/ CleanRule4
    \/ CleanRule5
    \/ CleanRule6
    \/ CleanRule7
    \/ CleanLoad
    \/ UsbDeviceManagerStep
    \/ UsbHostManagerStep
    \/ UsbReturn

(***************************************************************************)
(* Each rewrite rule on its own: a text, and the same rule applied to it   *)
(* up to MaxPasses times.                                                  *)
(***************************************************************************)
MaxPasses == 2

MaxSubLen == 5

SubAlphabet == {"1", "a", "=", ",", "}", "{", "\"", "\n"}

SubTexts == SeqsOf(SubAlphabet, 0, MaxSubLen)

SubPass(k, rule(_)) ==
    /\ sub_rule \in {0, k}
    /\ sub_passes < MaxPasses
    /\ sub_prev' = sub_text
    /\ sub_text' = rule(sub_text)
    /\ sub_rule' = k
    /\ sub_passes' = sub_passes + 1
    /\ UNCHANGED nonSubVars

SubRule1 == SubPass(1, Rule1)

SubRule2 == SubPass(2, Rule2)

SubRule3 == SubPass(3, Rule3)

SubRule4 == SubPass(4, Rule4)

SubRule5 == SubPass(5, Rule5)

SubRule6 == SubPass(6, Rule6)

SubRule7 == SubPass(7, Rule7)

SubNext ==
    \/ SubRule1
    \/ SubRule2
    \/ SubRule3
    \/ SubRule4
    \/ SubRule5
    \/ SubRule6
    \/ SubRule7

(***************************************************************************)
(* ThreadInfo, Process, ProcessReport (src/dumpstate/process/__init__.py). *)
(* An int holds its value; a float holds its literal.                      *)
(***************************************************************************)
PyBytes(chars) == [t |-> "bytes", v |-> chars]

PyNum(n) == [t |-> "int", v |-> n]

\* an attribute the object does not have (it is not in __dict__)
PyUnset == [t |-> "unset", v |-> <<>>]

\* the longest runs of characters that satisfy Is, in order
RunsOf(Is(_), t) ==
    LET starts == {p \in 1..Len(t) : Is(t[p]) /\ (p = 1 \/ ~Is(t[p - 1]))}
        start(n) == CHOOSE p \in starts : Cardinality({q \in starts : q <= p}) = n
        stop(p) == Min({q \in p..(Len(t) + 1) : q = Len(t) + 1 \/ ~Is(t[q])})
    IN  [n \in 1..Cardinality(starts) |-> SubSeq(t, start(n), stop(start(n)) - 1)]

\* bytes.split(): the runs of characters that are not whitespace
SplitWs(t) == RunsOf(LAMBDA c : c \notin Ws, t)

\* float(b) accepts, after strip(): a sign, then digits with an optional fraction, or
\* a fraction alone, then an optional exponent (the spellings of infinity and nan and
\* '_' between digits are not among the inputs)
IsFloatText(t) ==
    LET u == Unsigned(Strip(t))
        a == RunEnd(u, 1, Digit)
        b == IF a <= Len(u) /\ u[a] = "." THEN RunEnd(u, a + 1, Digit) ELSE a
        x == IF b <= Len(u) /\ u[b] \in {"e", "E"}
             THEN (IF b + 1 <= Len(u) /\ u[b + 1] \in {"+", "-"} THEN b + 2 ELSE b + 1)
             ELSE b
        c == IF x > b THEN RunEnd(u, x, Digit) ELSE b
    IN  /\ u /= <<>>
        /\ a > 1 \/ b > a + 1
        /\ x > b => c > x
        /\ c = Len(u) + 1

NewThreadInfo ==
    [pid |-> PyNum(0), tid |-> PyNum(0), user |-> PyBytes(<<>>), name |-> PyBytes(<<>>),
     state |-> PyBytes(<<>>), cmd |-> PyBytes(<<>>), label |-> PyBytes(<<>>),
     ppid |-> PyNum(0), vsz |-> PyBytes(<<>>), rss |-> PyBytes(<<>>),
     wchan |-> PyBytes(<<>>), addr |-> PyBytes(<<>>), pri |-> PyBytes(<<>>),
     ni |-> PyBytes(<<>>), rtprio |-> PyBytes(<<>>), sched |-> PyBytes(<<>>),
     pcy |-> PyBytes(<<>>), time |-> PyBytes(<<>>),
     cpu_percent |-> PyFloat(<<"0", ".", "0">>), virt |-> PyBytes(<<>>),
     res |-> PyBytes(<<>>),
     \* not a field of the dataclass: _parse_top sets it
     pr |-> PyUnset]

\* ThreadInfo._parse_ps on the parts of the line: [exc, ti]
ThreadInfo_parse_ps(self, parts) ==
    IF Len(parts) < 14 THEN [exc |-> "", ti |-> self]
    ELSE IF Len(parts) < 16 THEN [exc |-> "ValueError", ti |-> self]
    ELSE IF ~(IsIntText(parts[3]) /\ IsIntText(parts[4]) /\ IsIntText(parts[5]))
    THEN [exc |-> "ValueError", ti |-> self]
    ELSE [exc |-> "",
          ti |-> [self EXCEPT
                    !.label = PyBytes(parts[1]), !.user = PyBytes(parts[2]),
                    !.vsz = PyBytes(parts[6]), !.rss = PyBytes(parts[7]),
                    !.wchan = PyBytes(parts[8]), !.addr = PyBytes(parts[9]),
                    !.state = PyBytes(parts[10]), !.pri = PyBytes(parts[11]),
                    !.ni = PyBytes(parts[12]), !.rtprio = PyBytes(parts[13]),
                    !.sched = PyBytes(parts[14]), !.pcy = PyBytes(parts[15]),
                    !.time = PyBytes(parts[16]),
                    !.pid = PyNum(IntTextVal(parts[3])),
                    !.tid = PyNum(IntTextVal(parts[4])),
                    !.ppid = PyNum(IntTextVal(parts[5])),
                    !.name = PyBytes(Join(SubSeq(parts, 17, Len(parts)), <<" ">>))]]

\* ThreadInfo._parse_top on the parts of the line: [exc, ti]
ThreadInfo_parse_top(self, parts) ==
    IF Len(parts) < 12 THEN [exc |-> "", ti |-> self]
    ELSE IF ~(IsIntText(parts[1]) /\ IsIntText(parts[2])
              /\ IsFloatText(Replace(parts[6], <<"%">>, <<>>)))
    THEN [exc |-> "ValueError", ti |-> self]
    ELSE [exc |-> "",
          ti |-> [self EXCEPT
                    !.pid = PyNum(IntTextVal(parts[1])),
                    !.tid = PyNum(IntTextVal(parts[2])),
                    !.user = PyBytes(parts[3]), !.pr = PyBytes(parts[4]),
                    !.ni = PyBytes(parts[5]),
                    !.cpu_percent = PyFloat(Strip(Replace(parts[6], <<"%">>, <<>>))),
                    !.state = PyBytes(parts[7]), !.virt = PyBytes(parts[8]),
                    !.res = PyBytes(parts[9]), !.pcy = PyBytes(parts[10]),
                    !.cmd = PyBytes(parts[11]),
                    !.name = PyBytes(Join(SubSeq(parts, 12, Len(parts)), <<" ">>))]]

\* ThreadInfo.parse(line, source) on a new ThreadInfo
ThreadInfo_parse(line, source) ==
    CASE source = "ps" -> ThreadInfo_parse_ps(NewThreadInfo, SplitWs(Strip(line)))
      [] source = "top" -> ThreadInfo_parse_top(NewThreadInfo, SplitWs(Strip(line)))
      [] OTHER -> [exc |-> "", ti |-> NewThreadInfo]

\* the loop of Process.add_thread over thread_info.__dict__: setattr for every
\* attribute thread_info has whose value is not None
MergeThread(known, thread_info) ==
    [key \in DOMAIN known |->
        IF thread_info[key].t /= "unset" /\ thread_info[key].t /= "NoneType"
        THEN thread_info[key] ELSE known[key]]

\* Process.add_thread: the threads of the process afterwards
Process_add_thread(threads, thread_info) ==
    IF ~DictHas(PyDict(threads), thread_info.tid.v)
    THEN DictSet(threads, thread_info.tid.v, thread_info)
    ELSE DictSet(threads, thread_info.tid.v,
                 MergeThread(DictGet(PyDict(threads), thread_info.tid.v), thread_info))

NewProcess(thread_info) ==
    [pid |-> thread_info.pid, user |-> thread_info.user, name |-> thread_info.name,
     threads |-> <<>>]

NewProcessReport ==
    [threads_summary |-> <<>>, mem_summary |-> <<>>, swap_summary |-> <<>>,
     cpu_summary |-> <<>>, processes |-> <<>>]

\* the processes of the report with the thread of a listing line added
AddThreadTo(processes, thread_info, known) ==
    DictSet(processes, thread_info.pid.v,
            [known EXCEPT !.threads = Process_add_thread(known.threads, thread_info)])

\* the statements after thread_info.parse(line, source), parsed being what it gave:
\* [exc, processes]
ListingAdd(processes, parsed) ==
    IF parsed.exc /= "" THEN [exc |-> parsed.exc, processes |-> processes]
    ELSE IF parsed.ti.pid.v = 0 THEN [exc |-> "", processes |-> processes]
    ELSE [exc |-> "",
          processes |->
              AddThreadTo(processes, parsed.ti,
                          DictGetOr(PyDict(processes), parsed.ti.pid.v,
                                    NewProcess(parsed.ti)))]

\* the body of the line loops of _parse_top_content and _parse_ps_content once the
\* header line is past: [exc, processes]
ListingLine(processes, line, source) ==
    ListingAdd(processes, ThreadInfo_parse(line, source))

\* (\d+)\s+(\w+) matched at p: the end and the item {status: int(count)}
CountAt(t, p) ==
    LET a == RunEnd(t, p, Digit)
        b == RunEnd(t, a, Ws)
        c == RunEnd(t, b, WordCh)
    IN  IF a > p /\ b > a /\ c > b
        THEN [e |-> c, out |-> <<Slice(t, b, c), PyNum(DigitsVal(Slice(t, p, a)))>>]
        ELSE NoMatch

\* (\d+K)\s+(\w+) matched at p: the end and the item {status: size}
SizeAt(t, p) ==
    LET a == RunEnd(t, p, Digit)
        b == RunEnd(t, a + 1, Ws)
        c == RunEnd(t, b, WordCh)
    IN  IF a > p /\ a <= Len(t) /\ t[a] = "K" /\ b > a + 1 /\ c > b
        THEN [e |-> c, out |-> <<Slice(t, b, c), PyBytes(Slice(t, p, a + 1))>>]
        ELSE NoMatch

\* (\d+%)([^%\s]+) matched at p: the end and the item {status: value}
CpuAt(t, p) ==
    LET a == RunEnd(t, p, Digit)
        c == FindCh(t, a + 1, Ws \cup {"%"})
    IN  IF a > p /\ a <= Len(t) /\ t[a] = "%" /\ c > a + 1
        THEN [e |-> c, out |-> <<Slice(t, a + 1, c), PyBytes(Slice(t, p, a + 1))>>]
        ELSE NoMatch

\* the dict built from re.findall from position i on, added to items
RECURSIVE FindAllDict(_, _, _, _)
FindAllDict(At(_, _), t, i, items) ==
    LET hits == {p \in i..Len(t) : At(t, p).e > 0}
    IN  IF hits = {} THEN items
        ELSE FindAllDict(At, t, At(t, Min(hits)).e,
                         DictSet(items, At(t, Min(hits)).out[1], At(t, Min(hits)).out[2]))

ThreadsLit == <<"T", "h", "r", "e", "a", "d", "s", ":">>

MemLit == <<" ", " ", "M", "e", "m", ":">>

SwapLit == <<" ", "S", "w", "a", "p", ":">>

CpuLit == <<"8", "0", "0", "%", "c", "p", "u">>

\* the body of the first loop of _parse_top_content
SummaryLine(rep, line) ==
    IF StartsWith(line, ThreadsLit)
    THEN [rep EXCEPT !.threads_summary = FindAllDict(CountAt, line, 1, <<>>)]
    ELSE IF StartsWith(line, MemLit)
    THEN [rep EXCEPT !.mem_summary = FindAllDict(SizeAt, line, 1, <<>>)]
    ELSE IF StartsWith(line, SwapLit)
    THEN [rep EXCEPT !.swap_summary = FindAllDict(SizeAt, line, 1, <<>>)]
    ELSE IF StartsWith(line, CpuLit)
    THEN [rep EXCEPT !.cpu_summary = FindAllDict(CpuAt, line, 1, <<>>)]
    ELSE rep

(***************************************************************************)
(* parse_process_info (src/dumpstate/process/__init__.py), one action per  *)
(* iteration of each of its line loops.                                    *)
(***************************************************************************)
\* RawData.lines
RawData_lines(bytes) == Split(Strip(bytes), "\n")

CpuInfoHeader == <<"-", "-", "-", "-", "-", " ", "C", "P", "U", " ", "I", "N", "F", "O">>

ProcessesHeader ==
    <<"-", "-", "-", "-", "-", "-", " ", "P", "R", "O", "C", "E", "S", "S", "E", "S", " ",
      "A", "N", "D", " ", "T", "H", "R", "E", "A", "D", "S">>

SectionPrefix == <<"-", "-", "-", "-", "-", "-", " ">>

DurationLit ==
    <<"w", "a", "s", " ", "t", "h", "e", " ", "d", "u", "r", "a", "t", "i", "o", "n", " ",
      "o", "f">>

TopListingHeader == <<"P", "I", "D", " ", " ", " ", "T", "I", "D">>

PsListingHeader == <<"L", "A", "B", "E", "L">>

\* the body of the line loop of parse_process_info: [cs, sl]
CollectLine(cs, sl, line) ==
    IF StartsWith(line, CpuInfoHeader)
    THEN [cs |-> "cpu", sl |-> DictSet(sl, "cpu", <<>>)]
    ELSE IF StartsWith(line, ProcessesHeader)
    THEN [cs |-> "ps", sl |-> DictSet(sl, "ps", <<>>)]
    ELSE IF StartsWith(line, SectionPrefix) /\ Contains(line, DurationLit)
    THEN [cs |-> "None", sl |-> sl]
    ELSE IF cs /= "None"
    THEN [cs |-> cs, sl |-> DictSet(sl, cs, Append(DictGet(PyDict(sl), cs), line))]
    ELSE [cs |-> cs, sl |-> sl]

\* the lines collected for a section, none if the section was not met
SectionLines(sl, key) == DictGetOr(PyDict(sl), key, <<>>)

\* where parse_process_info goes on after the loop at pc `from` (a loop over no line
\* has no iteration)
ProcAfter(from, sl) ==
    IF from = "proc_collect" /\ SectionLines(sl, "cpu") /= <<>> THEN "proc_summary"
    ELSE IF from = "proc_summary" THEN "proc_top"
    ELSE IF from \in {"proc_collect", "proc_top"} /\ SectionLines(sl, "ps") /= <<>>
    THEN "proc_ps"
    ELSE "proc_return"

procLocals == <<report_lines, warnings, result>>

\* for line in dumpstate_content.lines
ProcCollectTo(r) ==
    /\ current_section' = r.cs
    /\ section_lines' = r.sl
    /\ IF line_no < Len(report_lines)
       THEN line_no' = line_no + 1 /\ pc' = pc
       ELSE line_no' = 1 /\ pc' = ProcAfter(pc, r.sl)

ProcCollect ==
    /\ pc = "proc_collect"
    /\ ProcCollectTo(CollectLine(current_section, section_lines, report_lines[line_no]))
    /\ UNCHANGED <<info, process_lines_started, raised, procLocals, nonProcVars>>

\* _parse_top_content: the loop over the summary lines
ProcSummary ==
    /\ pc = "proc_summary"
    /\ info' = SummaryLine(info, SectionLines(section_lines, "cpu")[line_no])
    /\ IF line_no < Len(SectionLines(section_lines, "cpu"))
       THEN line_no' = line_no + 1 /\ pc' = pc
       ELSE line_no' = 1 /\ pc' = ProcAfter(pc, section_lines)
    /\ process_lines_started' = FALSE
    /\ UNCHANGED <<current_section, section_lines, raised, procLocals, nonProcVars>>

ListingTo(r, started, last, next) ==
    /\ info' = [info EXCEPT !.processes = r.processes]
    /\ raised' = r.exc
    /\ IF r.exc /= "" THEN pc' = "done" /\ UNCHANGED line_no
       ELSE IF last THEN line_no' = 1 /\ pc' = next
       ELSE line_no' = line_no + 1 /\ pc' = pc
    \* a local of the function that runs the loop
    /\ process_lines_started' = (started /\ (r.exc /= "" \/ ~last))

\* _parse_top_content and _parse_ps_content: the loop over the listing
ListingStep(at, source, header, lines) ==
    /\ pc = at
    /\ IF StartsWith(Strip(lines[line_no]), header)
       THEN ListingTo([exc |-> "", processes |-> info.processes], TRUE,
                      line_no = Len(lines), ProcAfter(at, section_lines))
       ELSE ListingTo(IF process_lines_started
                      THEN ListingLine(info.processes, lines[line_no], source)
                      ELSE [exc |-> "", processes |-> info.processes],
                      process_lines_started,
                      line_no = Len(lines), ProcAfter(at, section_lines))
    /\ UNCHANGED <<current_section, section_lines, procLocals, nonProcVars>>

ProcTop ==
    ListingStep("proc_top", "top", TopListingHeader, SectionLines(section_lines, "cpu"))

ProcPs ==
    ListingStep("proc_ps", "ps", PsListingHeader, SectionLines(section_lines, "ps"))

\* return info if info.processes else None
ProcReturn ==
    /\ pc = "proc_return"
    /\ result' = IF info.processes /= <<>> THEN "ProcessReport" ELSE "None"
    /\ pc' = "done"
    /\ UNCHANGED <<report_lines, line_no, current_section, section_lines, info,
                   process_lines_started, warnings, raised, nonProcVars>>

ProcNext ==
    \/ ProcCollect
    \/ ProcSummary
    \/ ProcTop
    \/ ProcPs
    \/ ProcReturn

(***************************************************************************)
(* parse_package_install_log (src/dumpstate/package/log.py)                *)
(***************************************************************************)
\* bytes.split(sep) for a separator of several characters that cannot overlap itself
SplitOn(t, sep) ==
    LET cuts == {p \in 1..Len(t) : HasAt(t, p, sep)}
        cut(n) == IF n = 0 THEN 1 - Len(sep)
                  ELSE IF n > Cardinality(cuts) THEN Len(t) + 1
                  ELSE CHOOSE p \in cuts : Cardinality({q \in cuts : q <= p}) = n
    IN  [n \in 1..(Cardinality(cuts) + 1) |->
            SubSeq(t, cut(n - 1) + Len(sep), cut(n) - 1)]

\* get_key_val: re.search(b'(.*?){(.*?)}', text), None or the two groups
get_key_val(line) ==
    LET a == FindCh(line, 1, {"{"})
        b == FindCh(line, a + 1, {"}"})
    IN  IF b <= Len(line)
        THEN [found |-> TRUE, key |-> Slice(line, 1, a), val |-> Slice(line, a + 1, b)]
        ELSE [found |-> FALSE, key |-> <<>>, val |-> <<>>]

\* get_val: re.search(key + b'{(.*?)}', text), group 1 or b''
get_val(line, key) ==
    LET a == Find(line, key \o <<"{">>, 1)
        b == FindCh(line, a + Len(key) + 1, {"}"})
    IN  IF a > 0 /\ b <= Len(line) THEN Slice(line, a + Len(key) + 1, b) ELSE <<>>

\* re.match(r'(\d{4}-\d{2}-\d{2}\s\d{2}:\d{2}:\d{2}\.\d{3}):\s', line): group 1 and
\* the end of the match, or not found
LogTsMatch(line) ==
    LET digits == {1, 2, 3, 4, 6, 7, 9, 10, 12, 13, 15, 16, 18, 19, 21, 22, 23}
    IN  IF /\ Len(line) >= 25
           /\ \A n \in digits : line[n] \in Digit
           /\ line[5] = "-" /\ line[8] = "-" /\ line[11] \in Ws /\ line[14] = ":"
           /\ line[17] = ":" /\ line[20] = "." /\ line[24] = ":" /\ line[25] \in Ws
        THEN [found |-> TRUE, ts |-> Slice(line, 1, 24), end |-> 26]
        ELSE [found |-> FALSE, ts |-> <<>>, end |-> 0]

\* datetime.strptime(ts, '%Y-%m-%d %H:%M:%S.%f') does not raise ValueError
LogTsValid(ts) ==
    /\ DigitsVal(Slice(ts, 1, 5)) >= 1
    /\ DigitsVal(Slice(ts, 6, 8)) \in 1..12
    /\ DigitsVal(Slice(ts, 9, 11)) \in
           1..DaysInMonth(DigitsVal(Slice(ts, 1, 5)), DigitsVal(Slice(ts, 6, 8)))
    /\ DigitsVal(Slice(ts, 12, 14)) <= 23
    /\ DigitsVal(Slice(ts, 15, 17)) <= 59
    /\ DigitsVal(Slice(ts, 18, 20)) <= 59

\* the datetime of a valid timestamp: year, month, day, hour, minute, second,
\* microsecond
LogTs(ts) ==
    [t |-> "datetime",
     v |-> <<DigitsVal(Slice(ts, 1, 5)), DigitsVal(Slice(ts, 6, 8)),
             DigitsVal(Slice(ts, 9, 11)), DigitsVal(Slice(ts, 12, 14)),
             DigitsVal(Slice(ts, 15, 17)), DigitsVal(Slice(ts, 18, 20)),
             1000 * DigitsVal(Slice(ts, 21, 24))>>]

StartInstallLit ==
    <<"S", "T", "A", "R", "T", " ", "I", "N", "S", "T", "A", "L", "L", " ", "P", "A", "C",
      "K", "A", "G", "E">>

StartDeleteLit ==
    <<"S", "T", "A", "R", "T", " ", "D", "E", "L", "E", "T", "E", " ", "P", "A", "C", "K",
      "A", "G", "E">>

ObserverLit == <<"o", "b", "s", "e", "r", "v", "e", "r">>

ResultOfInstallLit ==
    <<"r", "e", "s", "u", "l", "t", " ", "o", "f", " ", "i", "n", "s", "t", "a", "l",
      "l">>

ResultOfDeleteLit ==
    <<"r", "e", "s", "u", "l", "t", " ", "o", "f", " ", "d", "e", "l", "e", "t", "e">>

ResultOfLit == <<"r", "e", "s", "u", "l", "t", " ", "o", "f", " ">>

LogState(exc, ins, obs, secs) ==
    [exc |-> exc, in_section |-> ins, current_observer |-> obs, sections |-> secs]

\* the branch of a START INSTALL or a START DELETE line; count is what the capture
\* counter is set to
LogStart(type, count, m, ins, obs, secs) ==
    IF ~m.found THEN LogState("", ins, obs, secs)
    ELSE IF ~LogTsValid(m.ts) THEN LogState("ValueError", count, obs, secs)
    ELSE LogState("", count, obs,
                  DictSet(secs, obs, [type |-> type, timestamp |-> LogTs(m.ts),
                                      data |-> <<>>, result |-> <<>>]))

\* re.match(r'result of (\w+):\s(-?\d+){(\d+)}', content): found, action, code, observer
LogResultMatch(content) ==
    LET a == RunEnd(content, 11, WordCh)
        d == IF a + 2 <= Len(content) /\ content[a + 2] = "-" THEN a + 3 ELSE a + 2
        b == RunEnd(content, d, Digit)
        c == RunEnd(content, b + 1, Digit)
    IN  IF /\ StartsWith(content, ResultOfLit)
           /\ a > 11
           /\ HasAt(content, a, <<":">>)
           /\ a + 1 <= Len(content) /\ content[a + 1] \in Ws
           /\ b > d
           /\ HasAt(content, b, <<"{">>)
           /\ c > b + 1
           /\ HasAt(content, c, <<"}">>)
        THEN [found |-> TRUE, action |-> Slice(content, 11, a),
              code |-> IntTextVal(Slice(content, a + 2, b)),
              observer |-> Slice(content, b + 1, c)]
        ELSE [found |-> FALSE, action |-> <<>>, code |-> 0, observer |-> <<>>]

\* the branch of a result line whose timestamp matched
LogResult(m, ins, obs, secs) ==
    IF m.found /\ DictHas(PyDict(secs), m.observer)
    THEN LogState("", ins, obs,
                  DictSet(secs, m.observer,
                          [DictGet(PyDict(secs), m.observer) EXCEPT
                              !.result = <<PyStr(m.action), PyNum(m.code)>>]))
    ELSE LogState("", ins, obs, secs)

\* the body of the loop over dumpstate_content.lines
LogScanLine(line, ins, obs, secs) ==
    IF Contains(line, StartInstallLit)
    THEN LogStart("INSTALL", 4, LogTsMatch(line), ins, get_val(line, ObserverLit), secs)
    ELSE IF Contains(line, StartDeleteLit)
    THEN LogStart("DELETE", 1, LogTsMatch(line), ins, get_val(line, ObserverLit), secs)
    ELSE IF obs /= <<>> /\ ins /= 0
    THEN IF ~DictHas(PyDict(secs), obs) THEN LogState("KeyError", ins - 1, obs, secs)
         ELSE LogState("", ins - 1, obs,
                       DictSet(secs, obs,
                               [DictGet(PyDict(secs), obs) EXCEPT
                                   !.data = Append(@, LStrip(line))]))
    ELSE IF (Contains(line, ResultOfInstallLit) \/ Contains(line, ResultOfDeleteLit))
            /\ LogTsMatch(line).found
    THEN LogResult(LogResultMatch(Slice(line, LogTsMatch(line).end, Len(line) + 1)),
                   ins, obs, secs)
    ELSE LogState("", ins, obs, secs)

\* the lines of a DELETE section cut at b', ', in order
RECURSIVE DetailsLines(_)
DetailsLines(lines) ==
    IF lines = <<>> THEN <<>>
    ELSE SplitOn(Head(lines), <<",", " ">>) \o DetailsLines(Tail(lines))

\* details[key] after the loop that fills details from the pairs: found, and the value
DetailsGet(pairs, key) ==
    LET at == {n \in 1..Len(pairs) : pairs[n].key = key}
    IN  IF at = {} THEN [found |-> FALSE, val |-> <<>>]
        ELSE [found |-> TRUE, val |-> pairs[Max(at)].val]

Key_stagedDir == <<"s", "t", "a", "g", "e", "d", "D", "i", "r">>

Key_pkg == <<"p", "k", "g">>

Key_versionCode == <<"v", "e", "r", "s", "i", "o", "n", "C", "o", "d", "e">>

Key_RequestFrom == <<"R", "e", "q", "u", "e", "s", "t", " ", "f", "r", "o", "m">>

Key_user == <<"u", "s", "e", "r">>

Key_caller == <<"c", "a", "l", "l", "e", "r">>

\* the body of the loop over sections for an INSTALL section: [exc, entry]
LogInstallEntry(key, section, pairs) ==
    IF \E n \in 1..Len(pairs) : ~pairs[n].found THEN [exc |-> "TypeError", entry |-> <<>>]
    ELSE IF \E k \in {Key_stagedDir, Key_pkg, Key_versionCode} : ~DetailsGet(pairs, k).found
    THEN [exc |-> "KeyError", entry |-> <<>>]
    ELSE IF ~IsIntText(DetailsGet(pairs, Key_versionCode).val)
    THEN [exc |-> "ValueError", entry |-> <<>>]
    ELSE IF ~DetailsGet(pairs, Key_RequestFrom).found
    THEN [exc |-> "KeyError", entry |-> <<>>]
    ELSE IF Len(section.result) < 2 THEN [exc |-> "IndexError", entry |-> <<>>]
    ELSE [exc |-> "",
          entry |-> [class |-> "PackageInstallInfo",
                     timestamp |-> section.timestamp,
                     observer |-> PyBytes(key),
                     staged_dir |-> PyStr(DetailsGet(pairs, Key_stagedDir).val),
                     package_name |-> PyStr(DetailsGet(pairs, Key_pkg).val),
                     version_code |->
                         PyNum(IntTextVal(DetailsGet(pairs, Key_versionCode).val)),
                     request_from |-> PyStr(DetailsGet(pairs, Key_RequestFrom).val),
                     result |-> section.result[2]]]

\* the body of the loop over sections for a DELETE section: [exc, entry]
LogDeleteEntry(key, section, pairs) ==
    IF \E n \in 1..Len(pairs) : ~pairs[n].found THEN [exc |-> "TypeError", entry |-> <<>>]
    ELSE IF \E k \in {Key_pkg, Key_user, Key_caller} : ~DetailsGet(pairs, k).found
    THEN [exc |-> "KeyError", entry |-> <<>>]
    ELSE IF Len(section.result) < 2 THEN [exc |-> "IndexError", entry |-> <<>>]
    ELSE [exc |-> "",
          entry |-> [class |-> "PackageDeleteInfo",
                     timestamp |-> section.timestamp,
                     observer |-> PyBytes(key),
                     package_name |-> PyStr(DetailsGet(pairs, Key_pkg).val),
                     user |-> PyStr(DetailsGet(pairs, Key_user).val),
                     caller |-> PyStr(DetailsGet(pairs, Key_caller).val),
                     result |-> section.result[2]]]

LogEntry(key, section) ==
    IF section.type = "INSTALL"
    THEN LogInstallEntry(key, section, Map(get_key_val, section.data))
    ELSE LogDeleteEntry(key, section, Map(get_key_val, DetailsLines(section.data)))

logLocals == <<report_lines, warnings, result>>

LogScanTo(r) ==
    /\ in_section' = r.in_section
    /\ current_observer' = r.current_observer
    /\ sections' = r.sections
    /\ raised' = r.exc
    /\ IF r.exc /= "" THEN pc' = "done" /\ UNCHANGED line_no
       ELSE IF line_no < Len(report_lines) THEN pc' = pc /\ line_no' = line_no + 1
       ELSE line_no' = 1 /\ pc' = IF r.sections = <<>> THEN "log_return" ELSE "log_build"

\* for line in dumpstate_content.lines
LogScan ==
    /\ pc = "log_scan"
    /\ LogScanTo(LogScanLine(report_lines[line_no], in_section, current_observer,
                             sections))
    /\ UNCHANGED <<key_no, log_data, logLocals, nonLogVars>>

LogBuildTo(r) ==
    /\ raised' = r.exc
    /\ IF r.exc /= "" THEN pc' = "done" /\ UNCHANGED <<key_no, log_data>>
       ELSE /\ log_data' = Append(log_data, r.entry)
            /\ key_no' = key_no + 1
            /\ pc' = IF key_no < Len(sections) THEN pc ELSE "log_return"

\* for key in sections
LogBuild ==
    /\ pc = "log_build"
    /\ LogBuildTo(LogEntry(sections[key_no][1], sections[key_no][2]))
    /\ UNCHANGED <<in_section, current_observer, sections, line_no, logLocals,
                   nonLogVars>>

\* return log_data
LogReturn ==
    /\ pc = "log_return"
    /\ result' = "list"
    /\ pc' = "done"
    /\ UNCHANGED <<logVars, line_no, report_lines, warnings, raised, nonLogVars>>

LogNext ==
    \/ LogScan
    \/ LogBuild
    \/ LogReturn

(***************************************************************************)
(* Package, PackageInfo and the line rules of parse_package_info           *)
(* (src/dumpstate/package/__init__.py).                                    *)
(***************************************************************************)
ServicePidLit ==
    <<"S", "e", "r", "v", "i", "c", "e", " ", "h", "o", "s", "t", " ", "p", "r", "o", "c",
      "e", "s", "s", " ", "P", "I", "D", ":">>

ThreadsInUseLit ==
    <<"T", "h", "r", "e", "a", "d", "s", " ", "i", "n", " ", "u", "s", "e", ":">>

ClientPidsLit == <<"C", "l", "i", "e", "n", "t", " ", "P", "I", "D", "s", ":">>

DatabaseVersionsLit ==
    <<"D", "a", "t", "a", "b", "a", "s", "e", " ", "v", "e", "r", "s", "i", "o", "n", "s",
      ":">>

KnownPackagesLit ==
    <<"K", "n", "o", "w", "n", " ", "P", "a", "c", "k", "a", "g", "e", "s", ":">>

VerifiersLit == <<"V", "e", "r", "i", "f", "i", "e", "r", "s", ":">>

DomainVerifierLit ==
    <<"D", "o", "m", "a", "i", "n", " ", "V", "e", "r", "i", "f", "i", "e", "r", ":">>

LibrariesLit == <<"L", "i", "b", "r", "a", "r", "i", "e", "s", ":">>

FeaturesLit == <<"F", "e", "a", "t", "u", "r", "e", "s", ":">>

PackagesLit == <<"P", "a", "c", "k", "a", "g", "e", "s", ":">>

RequiredLit == <<"R", "e", "q", "u", "i", "r", "e", "d", ":">>

UsingLit == <<"U", "s", "i", "n", "g", ":">>

PackageOpenLit == <<"P", "a", "c", "k", "a", "g", "e", " ", "[">>

RuntimePermissionsLit ==
    <<"r", "u", "n", "t", "i", "m", "e", " ", "p", "e", "r", "m", "i", "s", "s", "i", "o",
      "n", "s", ":">>

InstallPermissionsLit ==
    <<"i", "n", "s", "t", "a", "l", "l", " ", "p", "e", "r", "m", "i", "s", "s", "i", "o",
      "n", "s", ":">>

DeclaredPermissionsLit ==
    <<"d", "e", "c", "l", "a", "r", "e", "d", " ", "p", "e", "r", "m", "i", "s", "s", "i",
      "o", "n", "s", ":">>

SixSpaces == <<" ", " ", " ", " ", " ", " ">>

GrantedLit == <<"g", "r", "a", "n", "t", "e", "d", "=">>

FlagsOpenLit == <<"f", "l", "a", "g", "s", "=", "[">>

ProtLit == <<"p", "r", "o", "t", "=">>

AppIdLit == <<"a", "p", "p", "I", "d", "=">>

VersionCodeLit == <<"v", "e", "r", "s", "i", "o", "n", "C", "o", "d", "e", "=">>

VersionNameLit == <<"v", "e", "r", "s", "i", "o", "n", "N", "a", "m", "e", "=">>

DataDirLit == <<"d", "a", "t", "a", "D", "i", "r", "=">>

FlagsLit == <<"f", "l", "a", "g", "s", "=">>

PrivateFlagsLit == <<"p", "r", "i", "v", "a", "t", "e", "F", "l", "a", "g", "s", "=">>

UserLit == <<"U", "s", "e", "r", " ">>

FirstInstallTimeLit ==
    <<"f", "i", "r", "s", "t", "I", "n", "s", "t", "a", "l", "l", "T", "i", "m", "e",
      "=">>

OriginatingLit ==
    <<"o", "r", "i", "g", "i", "n", "a", "t", "i", "n", "g", "P", "a", "c", "k", "a", "g",
      "e", "N", "a", "m", "e">>

InitiatingLit ==
    <<"i", "n", "i", "t", "i", "a", "t", "i", "n", "g", "P", "a", "c", "k", "a", "g", "e",
      "N", "a", "m", "e">>

InstallerUidLit ==
    <<"i", "n", "s", "t", "a", "l", "l", "e", "r", "P", "a", "c", "k", "a", "g", "e", "U",
      "i", "d">>

TimeStampLit == <<"t", "i", "m", "e", "S", "t", "a", "m", "p">>

LastUpdateTimeLit ==
    <<"l", "a", "s", "t", "U", "p", "d", "a", "t", "e", "T", "i", "m", "e">>

PackageAnchor ==
    <<"D", "U", "M", "P", " ", "O", "F", " ", "S", "E", "R", "V", "I", "C", "E", " ", "p",
      "a", "c", "k", "a", "g", "e", ":">>

ServiceAnchor ==
    <<"D", "U", "M", "P", " ", "O", "F", " ", "S", "E", "R", "V", "I", "C", "E">>

DashesLit == <<"-", "-", "-", "-", "-", "-">>

NewPackage ==
    [name |-> PyBytes(<<>>), app_id |-> PyBytes(<<>>), version_code |-> PyNum(0),
     version_name |-> PyBytes(<<>>), data_dir |-> PyBytes(<<>>), flags |-> <<>>,
     private_flags |-> <<>>, users |-> <<>>, runtime_permissions |-> <<>>,
     install_permissions |-> <<>>, declared_permissions |-> <<>>,
     first_install_time |-> PyBytes(<<>>), originating_package_name |-> PyBytes(<<>>),
     initiating_package_name |-> PyBytes(<<>>), time_stamp |-> PyNone,
     last_update_time |-> PyNone, installer_package_uid |-> PyNum(0)]

\* the fields no line rule writes (permissions, shared_users, the resolvers,
\* permission_trees, package_changes, install_sessions, apex_session_state) stay empty
NewPackageInfo ==
    [service_pid |-> PyNum(0), threads_in_use |-> PyBytes(<<>>), client_pids |-> <<>>,
     database_versions |-> <<>>, known_packages |-> <<>>, verifiers |-> <<>>,
     domain_verifier |-> PyBytes(<<>>), libraries |-> <<>>, features |-> <<>>,
     packages |-> <<>>]

\* the locals the line loop carries, and the exception a line ends it with
PkgState(exc, pinfo, cs, cp, sub) ==
    [exc |-> exc, package_info |-> pinfo, current_section |-> cs,
     current_package |-> cp, current_package_subsection |-> sub]

PkgRaise(st, exc) == [st EXCEPT !.exc = exc]

\* setattr(current_package, field, val)
PkgSet(st, field, val) ==
    [st EXCEPT !.package_info.packages[st.current_package][field] = val]

\* line.split(sep)[1]: found, and the piece
SecondPiece(line, sep) ==
    IF Len(Split(line, sep)) < 2 THEN [found |-> FALSE, val |-> <<>>]
    ELSE [found |-> TRUE, val |-> Split(line, sep)[2]]

\* re.match(rb'^[A-Z][a-zA-Z\s]+:', line)
IsOtherHeader(line) ==
    /\ line /= <<>>
    /\ line[1] \in Upper
    /\ RunEnd(line, 2, Lower \cup Upper \cup Ws) >= 3
    /\ HasAt(line, RunEnd(line, 2, Lower \cup Upper \cup Ws), <<":">>)

\* the section a header line names, "" for a line that is no section header
HeaderSection(line) ==
    IF StartsWith(line, DatabaseVersionsLit) THEN "database"
    ELSE IF StartsWith(line, KnownPackagesLit) THEN "known_packages"
    ELSE IF StartsWith(line, VerifiersLit) THEN "verifiers"
    ELSE IF StartsWith(line, DomainVerifierLit) THEN "domain_verifier"
    ELSE IF StartsWith(line, LibrariesLit) THEN "libraries"
    ELSE IF StartsWith(line, FeaturesLit) THEN "features"
    ELSE IF StartsWith(line, PackagesLit) THEN "packages"
    ELSE IF IsOtherHeader(line) THEN "None"
    ELSE ""

\* the lines the first branches of the loop take, whatever the section
IsTopLine(line) ==
    \/ StartsWith(line, ServicePidLit)
    \/ StartsWith(line, ThreadsInUseLit)
    \/ StartsWith(line, ClientPidsLit)
    \/ HeaderSection(line) /= ""

\* [int(p) for p in pids_str.split(b', ')], for pieces that are all integers
ClientPids(pieces) == [n \in 1..Len(pieces) |-> PyNum(IntTextVal(pieces[n]))]

\* the branches of the section headers
PkgTopLine(st, line) ==
    IF StartsWith(line, ServicePidLit)
    THEN IF IsIntText(Split(line, ":")[2])
         THEN [st EXCEPT !.package_info.service_pid =
                             PyNum(IntTextVal(Split(line, ":")[2]))]
         ELSE PkgRaise(st, "ValueError")
    ELSE IF StartsWith(line, ThreadsInUseLit)
    THEN [st EXCEPT !.package_info.threads_in_use = PyBytes(Strip(Split(line, ":")[2]))]
    ELSE IF StartsWith(line, ClientPidsLit)
    THEN IF \A n \in 1..Len(SplitOn(Strip(Split(line, ":")[2]), <<",", " ">>)) :
                IsIntText(SplitOn(Strip(Split(line, ":")[2]), <<",", " ">>)[n])
         THEN [st EXCEPT !.package_info.client_pids =
                             ClientPids(SplitOn(Strip(Split(line, ":")[2]), <<",", " ">>))]
         ELSE PkgRaise(st, "ValueError")
    ELSE [st EXCEPT !.current_section = HeaderSection(line)]

\* key, value = line.split(sep, 1), both stripped, for a line that has sep
SplitOnce(line, sep) ==
    <<Strip(Slice(line, 1, Find(line, sep, 1))),
      Strip(Slice(line, Find(line, sep, 1) + Len(sep), Len(line) + 1))>>

\* the branches of the sections other than Packages
PkgSectionLine(st, line) ==
    CASE st.current_section = "database" /\ Contains(line, <<":">>) ->
            [st EXCEPT !.package_info.database_versions =
                DictSet(@, SplitOnce(line, <<":">>)[1], PyBytes(SplitOnce(line, <<":">>)[2]))]
      [] st.current_section = "known_packages" /\ Contains(line, <<":">>) ->
            [st EXCEPT !.package_info.known_packages =
                DictSet(@, SplitOnce(line, <<":">>)[1], PyBytes(SplitOnce(line, <<":">>)[2]))]
      [] st.current_section = "verifiers" /\ StartsWith(line, RequiredLit) ->
            [st EXCEPT !.package_info.verifiers =
                Append(@, PyBytes(Strip(Replace(line, RequiredLit, <<>>))))]
      [] st.current_section = "domain_verifier" /\ StartsWith(line, UsingLit) ->
            [st EXCEPT !.package_info.domain_verifier =
                PyBytes(Strip(Replace(line, UsingLit, <<>>)))]
      [] st.current_section = "libraries" /\ Contains(line, <<"-", ">">>) ->
            [st EXCEPT !.package_info.libraries =
                DictSet(@, SplitOnce(line, <<"-", ">">>)[1],
                        PyBytes(SplitOnce(line, <<"-", ">">>)[2]))]
      [] st.current_section = "features" ->
            [st EXCEPT !.package_info.features = Append(@, PyBytes(line))]
      [] OTHER -> st

\* re.search(rb'Package \[([^\]]+)\]', line): found, and group 1
PackageNameMatch(line) ==
    LET hits == {p \in 1..Len(line) :
                    /\ HasAt(line, p, PackageOpenLit)
                    /\ FindCh(line, p + 9, {"]"}) \in (p + 10)..Len(line)}
    IN  IF hits = {} THEN [found |-> FALSE, val |-> <<>>]
        ELSE [found |-> TRUE,
              val |-> Slice(line, Min(hits) + 9, FindCh(line, Min(hits) + 9, {"]"}))]

\* ([^:]+): followed by what Tail(line, i) accepts at i: the colon of the leftmost
\* match, or 0
PermColon(TailAt(_, _), line) ==
    LET hits == {c \in 2..Len(line) :
                    line[c] = ":" /\ line[c - 1] /= ":" /\ TailAt(line, c + 1)}
    IN  IF hits = {} THEN 0 ELSE Min(hits)

\* group 1 of ([^:]+): for the colon at c
PermName(line, c) ==
    Strip(Slice(line, Max({0} \cup {q \in 1..(c - 1) : line[q] = ":"}) + 1, c))

\* where (true|false) ends when it is matched at g, or 0
GrantedEnd(line, g) ==
    IF HasAt(line, g, TrueLit) THEN g + 4 ELSE IF HasAt(line, g, FalseLit) THEN g + 5 ELSE 0

\* \s*granted=(true|false) at i
RuntimeTail(line, i) ==
    /\ HasAt(line, RunEnd(line, i, Ws), GrantedLit)
    /\ GrantedEnd(line, RunEnd(line, i, Ws) + 8) > 0

\* ' granted=(true|false)' at i
InstallTail(line, i) ==
    /\ HasAt(line, i, <<" ">> \o GrantedLit)
    /\ GrantedEnd(line, i + 9) > 0

\* \s*(prot=([^:]+))? at i
DeclaredTail(line, i) == TRUE

\* group 3 of (?:,\s*flags=\[(.*?)\])? matched at e: the flags, cut at '|' and stripped
RuntimeFlags(line, e) ==
    LET f == RunEnd(line, e + 1, Ws)
        close == FindCh(line, f + 7, {"]"})
    IN  IF /\ HasAt(line, e, <<",">>)
           /\ HasAt(line, f, FlagsOpenLit)
           /\ close <= Len(line)
           /\ close > f + 7
        THEN Map(LAMBDA x : PyBytes(Strip(x)), Split(Slice(line, f + 7, close), "|"))
        ELSE <<>>

\* the branch of a line of the runtime permissions, for the colon c of the match
PkgRuntimePermission(st, line, c) ==
    IF c = 0 THEN st
    ELSE PkgSet(st, "runtime_permissions",
                DictSet(st.package_info.packages[st.current_package].runtime_permissions,
                        PermName(line, c),
                        [granted |-> HasAt(line, RunEnd(line, c + 1, Ws) + 8, TrueLit),
                         flags |-> RuntimeFlags(line,
                                       GrantedEnd(line, RunEnd(line, c + 1, Ws) + 8))]))

\* the branch of a line of the install permissions
PkgInstallPermission(st, line, c) ==
    IF c = 0 THEN st
    ELSE PkgSet(st, "install_permissions",
                DictSet(st.package_info.packages[st.current_package].install_permissions,
                        PermName(line, c),
                        [granted |-> HasAt(line, c + 10, TrueLit)]))

\* group 3 of (prot=([^:]+))? after the colon at c: found, and the text
ProtValue(line, c) ==
    LET p == RunEnd(line, c + 1, Ws)
        e == FindCh(line, p + 5, {":"})
    IN  IF HasAt(line, p, ProtLit) /\ e > p + 5
        THEN [found |-> TRUE, val |-> Slice(line, p + 5, e)]
        ELSE [found |-> FALSE, val |-> <<>>]

\* the branch of a line of the declared permissions
PkgDeclaredPermission(st, line, c) ==
    IF c = 0 THEN st
    ELSE IF ~ProtValue(line, c).found THEN PkgRaise(st, "AttributeError")
    ELSE PkgSet(st, "declared_permissions",
                DictSet(st.package_info.packages[st.current_package].declared_permissions,
                        PermName(line, c),
                        [prot |-> Map(LAMBDA x : PyBytes(Strip(x)),
                                      Split(Strip(ProtValue(line, c).val), "|"))]))

\* re.search(lit + what follows): the place after the leftmost lit which Follows
\* accepts, or 0
AfterLit(Follows(_, _), line, literal) ==
    LET hits == {p \in 1..Len(line) :
                    HasAt(line, p, literal) /\ Follows(line, p + Len(literal))}
    IN  IF hits = {} THEN 0 ELSE Min(hits) + Len(literal)

DigitAt(line, i) == i <= Len(line) /\ line[i] \in Digit

NonSpaceAt(line, i) == i <= Len(line) /\ line[i] \notin Ws

\* (\d+): after "User "
UserIdAt(line, i) ==
    DigitAt(line, i) /\ HasAt(line, RunEnd(line, i, Digit), <<":">>)

\* \d{4}-\d{2}-\d{2} \d{2}:\d{2}:\d{2} at i
InstallTimeAt(line, i) ==
    /\ i + 18 <= Len(line)
    /\ \A n \in {0, 1, 2, 3, 5, 6, 8, 9, 11, 12, 14, 15, 17, 18} : line[i + n] \in Digit
    /\ line[i + 4] = "-" /\ line[i + 7] = "-" /\ line[i + 10] = " "
    /\ line[i + 13] = ":" /\ line[i + 16] = ":"

\* datetime.strptime(t, "%Y-%m-%d %H:%M:%S"): ok, and the datetime.  A field but the
\* year has one or two digits (the day written as a space and a digit is not among
\* the inputs).
Strptime(t) ==
    LET m == RunEnd(t, 6, Digit)
        d == RunEnd(t, m + 1, Digit)
        w == RunEnd(t, d, Ws)
        h == RunEnd(t, w, Digit)
        mi == RunEnd(t, h + 1, Digit)
        e == RunEnd(t, mi + 1, Digit)
        val(a, b) == DigitsVal(Slice(t, a, b))
    IN  IF /\ RunEnd(t, 1, Digit) = 5 /\ HasAt(t, 5, <<"-">>)
           /\ m - 6 \in {1, 2} /\ HasAt(t, m, <<"-">>)
           /\ d - (m + 1) \in {1, 2}
           /\ w > d
           /\ h - w \in {1, 2} /\ HasAt(t, h, <<":">>)
           /\ mi - (h + 1) \in {1, 2} /\ HasAt(t, mi, <<":">>)
           /\ e - (mi + 1) \in {1, 2} /\ e = Len(t) + 1
           /\ val(1, 5) >= 1
           /\ val(6, m) \in 1..12
           /\ val(m + 1, d) \in 1..DaysInMonth(val(1, 5), val(6, m))
           /\ val(w, h) <= 23 /\ val(h + 1, mi) <= 59 /\ val(mi + 1, e) <= 59
        THEN [ok |-> TRUE,
              val |-> [t |-> "datetime",
                       v |-> <<val(1, 5), val(6, m), val(m + 1, d), val(w, h),
                               val(h + 1, mi), val(mi + 1, e), 0>>]]
        ELSE [ok |-> FALSE, val |-> PyNone]

\* the User branch, i the place after the matched "User "
PkgUser(st, line, i) ==
    IF i = 0 THEN st
    ELSE [PkgSet(st, "users",
                 DictSet(st.package_info.packages[st.current_package].users,
                         DigitsVal(Slice(line, i, RunEnd(line, i, Digit))),
                         <<<<"raw", PyBytes(line)>>>>))
          EXCEPT !.package_info.packages[st.current_package].first_install_time =
              IF AfterLit(InstallTimeAt, line, FirstInstallTimeLit) = 0 THEN @
              ELSE PyBytes(SubSeq(line, AfterLit(InstallTimeAt, line, FirstInstallTimeLit),
                                  AfterLit(InstallTimeAt, line, FirstInstallTimeLit) + 18))]

\* a field set from line.split(b'=')[1], through conv where the code converts it
PkgSplitField(st, line, field, conv) ==
    IF ~SecondPiece(line, "=").found THEN PkgRaise(st, "IndexError")
    ELSE IF conv = "int"
    THEN IF IsIntText(SecondPiece(line, "=").val)
         THEN PkgSet(st, field, PyNum(IntTextVal(SecondPiece(line, "=").val)))
         ELSE PkgRaise(st, "ValueError")
    ELSE IF conv = "strptime"
    THEN IF Strptime(SecondPiece(line, "=").val).ok
         THEN PkgSet(st, field, Strptime(SecondPiece(line, "=").val).val)
         ELSE PkgRaise(st, "ValueError")
    ELSE PkgSet(st, field, PyBytes(SecondPiece(line, "=").val))

\* re.findall(rb'([A-Z_]+)', line)
FlagNames(line) == Map(PyBytes, RunsOf(LAMBDA c : c \in Upper \cup {"_"}, line))

\* the branch of a field line of the current package
PkgField(st, line) ==
    IF StartsWith(line, AppIdLit) THEN PkgSplitField(st, line, "app_id", "")
    ELSE IF Contains(line, VersionCodeLit)
    THEN IF AfterLit(DigitAt, line, VersionCodeLit) = 0 THEN st
         ELSE PkgSet(st, "version_code",
                     PyNum(DigitsVal(Slice(line, AfterLit(DigitAt, line, VersionCodeLit),
                                  RunEnd(line, AfterLit(DigitAt, line, VersionCodeLit),
                                         Digit)))))
    ELSE IF Contains(line, VersionNameLit)
    THEN IF AfterLit(NonSpaceAt, line, VersionNameLit) = 0 THEN st
         ELSE PkgSet(st, "version_name",
                     PyBytes(Slice(line, AfterLit(NonSpaceAt, line, VersionNameLit),
                                   FindCh(line, AfterLit(NonSpaceAt, line, VersionNameLit),
                                          Ws))))
    ELSE IF StartsWith(line, DataDirLit) THEN PkgSplitField(st, line, "data_dir", "")
    ELSE IF StartsWith(line, FlagsLit) THEN PkgSet(st, "flags", FlagNames(line))
    ELSE IF StartsWith(line, PrivateFlagsLit)
    THEN PkgSet(st, "private_flags", FlagNames(line))
    ELSE IF StartsWith(line, UserLit) THEN PkgUser(st, line, AfterLit(UserIdAt, line, UserLit))
    ELSE IF StartsWith(line, OriginatingLit)
    THEN PkgSplitField(st, line, "originating_package_name", "")
    ELSE IF StartsWith(line, InitiatingLit)
    THEN PkgSplitField(st, line, "initiating_package_name", "")
    ELSE IF StartsWith(line, InstallerUidLit)
    THEN PkgSplitField(st, line, "installer_package_uid", "int")
    ELSE IF StartsWith(line, TimeStampLit)
    THEN PkgSplitField(st, line, "time_stamp", "strptime")
    ELSE IF StartsWith(line, LastUpdateTimeLit)
    THEN PkgSplitField(st, line, "last_update_time", "strptime")
    ELSE st

\* a line of the current package past the subsection headers
PkgPackageLine(st, line) ==
    IF st.current_package_subsection = "runtime_permissions"
    THEN PkgRuntimePermission(st, line, PermColon(RuntimeTail, line))
    ELSE IF st.current_package_subsection = "install_permissions"
    THEN PkgInstallPermission(st, line, PermColon(InstallTail, line))
    ELSE IF st.current_package_subsection = "declared_permissions"
    THEN PkgDeclaredPermission(st, line, PermColon(DeclaredTail, line))
    ELSE PkgField(st, line)

\* the 'Package [' branch without 'current_package_subsection = None': the open
\* permission sub-state is carried over to the new Package
PkgOpenPackageKeepSub(st, line) ==
    [st EXCEPT
        !.package_info.packages =
            Append(@, [NewPackage EXCEPT
                          !.name = IF PackageNameMatch(line).found
                                   THEN PyBytes(PackageNameMatch(line).val) ELSE @]),
        !.current_package = Len(st.package_info.packages) + 1]

\* the 'Package [' branch: a new Package is appended and becomes current_package
PkgOpenPackage(st, line) ==
    [st EXCEPT
        !.package_info.packages =
            Append(@, [NewPackage EXCEPT
                          !.name = IF PackageNameMatch(line).found
                                   THEN PyBytes(PackageNameMatch(line).val) ELSE @]),
        !.current_package = Len(st.package_info.packages) + 1,
        !.current_package_subsection = "None"]

\* the branch of the Packages section
PkgPackagesLine(st, line, non_stripped_line) ==
    IF StartsWith(line, PackageOpenLit) THEN PkgOpenPackage(st, line)
    ELSE IF st.current_package = 0 THEN st
    ELSE IF StartsWith(line, RuntimePermissionsLit)
    THEN [st EXCEPT !.current_package_subsection = "runtime_permissions"]
    ELSE IF StartsWith(line, InstallPermissionsLit)
    THEN [st EXCEPT !.current_package_subsection = "install_permissions"]
    ELSE IF StartsWith(line, DeclaredPermissionsLit)
    THEN [st EXCEPT !.current_package_subsection = "declared_permissions"]
    ELSE PkgPackageLine(
             [st EXCEPT !.current_package_subsection =
                            IF StartsWith(non_stripped_line, SixSpaces) THEN @ ELSE "None"],
             line)

\* the loop body with the content rule of the Features state placed before the
\* header branches: a header line met in that state is stored as a feature
PkgLineContentFirst(st, non_stripped_line) ==
    IF Strip(non_stripped_line) = <<>> THEN st
    ELSE IF st.current_section = "features"
    THEN PkgSectionLine(st, Strip(non_stripped_line))
    ELSE IF IsTopLine(Strip(non_stripped_line))
    THEN PkgTopLine(st, Strip(non_stripped_line))
    ELSE IF st.current_section = "None" THEN st
    ELSE IF st.current_section = "packages"
    THEN PkgPackagesLine(st, Strip(non_stripped_line), non_stripped_line)
    ELSE PkgSectionLine(st, Strip(non_stripped_line))

\* the body of the loop over the lines of package_content
PkgLine(st, non_stripped_line) ==
    IF Strip(non_stripped_line) = <<>> THEN st
    ELSE IF IsTopLine(Strip(non_stripped_line))
    THEN PkgTopLine(st, Strip(non_stripped_line))
    ELSE IF st.current_section = "None" THEN st
    ELSE IF st.current_section = "packages"
    THEN PkgPackagesLine(st, Strip(non_stripped_line), non_stripped_line)
    ELSE PkgSectionLine(st, Strip(non_stripped_line))

pkgLocals == <<report_lines, warnings>>

\* for line in dumpstate_content.lines, up to its break
PkgCollect ==
    /\ pc = "pkg_collect"
    /\ in_package_section' =
           (in_package_section \/ StartsWith(report_lines[line_no], PackageAnchor))
    /\ package_content_lines' =
           IF /\ in_package_section
              /\ ~StartsWith(report_lines[line_no], PackageAnchor)
              /\ ~StartsWith(report_lines[line_no], ServiceAnchor)
              /\ ~StartsWith(report_lines[line_no], DashesLit)
           THEN Append(package_content_lines, report_lines[line_no])
           ELSE package_content_lines
    /\ IF /\ line_no < Len(report_lines)
          /\ \/ ~in_package_section
             \/ StartsWith(report_lines[line_no], PackageAnchor)
             \/ ~(\/ StartsWith(report_lines[line_no], ServiceAnchor)
                  \/ StartsWith(report_lines[line_no], DashesLit))
       THEN line_no' = line_no + 1 /\ pc' = pc
       ELSE line_no' = 1 /\ pc' = IF package_content_lines' = <<>> THEN "pkg_return"
                                   ELSE "pkg_parse"
    /\ UNCHANGED <<package_info, current_section, current_package,
                   current_package_subsection, raised, result, pkgLocals, nonPkgVars>>

PkgParseTo(st) ==
    /\ package_info' = st.package_info
    /\ current_section' = st.current_section
    /\ current_package' = st.current_package
    /\ current_package_subsection' = st.current_package_subsection
    /\ raised' = st.exc
    /\ IF st.exc /= "" THEN pc' = "done" /\ UNCHANGED line_no
       ELSE IF line_no < Len(package_content_lines) THEN line_no' = line_no + 1 /\ pc' = pc
       ELSE line_no' = 1 /\ pc' = "pkg_return"

\* for line in package_content.split(b'\n'): the split gives package_content_lines back
PkgParse ==
    /\ pc = "pkg_parse"
    /\ PkgParseTo(PkgLine(PkgState("", package_info, current_section, current_package,
                                   current_package_subsection),
                          package_content_lines[line_no]))
    /\ UNCHANGED <<in_package_section, package_content_lines, result, pkgLocals,
                   nonPkgVars>>

\* return None for a section without lines, return package_info after the loop
PkgReturn ==
    /\ pc = "pkg_return"
    /\ result' = IF package_content_lines = <<>> THEN "None" ELSE "PackageInfo"
    /\ pc' = "done"
    /\ UNCHANGED <<pkgVars, current_section, line_no, raised, pkgLocals, nonPkgVars>>

PkgNext ==
    \/ PkgCollect
    \/ PkgParse
    \/ PkgReturn

(***************************************************************************)
(* The patterns of re that need no backtracking, as sequences of items: a  *)
(* literal, one character of a class, a non-empty run of a class, a run up *)
(* to a character of a class, empty or not.                                *)
(***************************************************************************)
ReLit(chars) == [k |-> "lit", s |-> chars, c |-> {}]

ReOne(cls) == [k |-> "one", s |-> <<>>, c |-> cls]

RePlus(cls) == [k |-> "plus", s |-> <<>>, c |-> cls]

ReUntil(cls) == [k |-> "until", s |-> <<>>, c |-> cls]

ReUntil1(cls) == [k |-> "until1", s |-> <<>>, c |-> cls]

\* the position after item matched at position i of t, 0 when it does not match
ReItemEnd(t, i, item) ==
    IF item.k = "lit" THEN (IF HasAt(t, i, item.s) THEN i + Len(item.s) ELSE 0)
    ELSE IF item.k = "one" THEN (IF i <= Len(t) /\ t[i] \in item.c THEN i + 1 ELSE 0)
    ELSE IF item.k = "plus"
    THEN (IF RunEnd(t, i, item.c) > i THEN RunEnd(t, i, item.c) ELSE 0)
    ELSE IF item.k = "until" THEN FindCh(t, i, item.c)
    ELSE (IF FindCh(t, i, item.c) > i THEN FindCh(t, i, item.c) ELSE 0)

RECURSIVE ReScanFrom(_, _, _, _)
ReScanRest(i, rest) == IF rest = <<>> THEN <<>> ELSE <<i>> \o rest

ReScanNext(t, i, pat, k, e) ==
    IF e = 0 THEN <<>> ELSE ReScanRest(i, ReScanFrom(t, e, pat, k + 1))

\* the items k.. of pat matched at position i of t: the position of each of them and
\* the position after the last, <<>> when one does not match
ReScanFrom(t, i, pat, k) ==
    IF k > Len(pat) THEN <<i>> ELSE ReScanNext(t, i, pat, k, ReItemEnd(t, i, pat[k]))

ReScan(t, i, pat) == ReScanFrom(t, i, pat, 1)

ReFirst(t, pat, hits) == IF hits = {} THEN <<>> ELSE ReScan(t, Min(hits), pat)

\* re.search(pat, t): the positions of the leftmost match, <<>> for None
ReSearch(t, pat) == ReFirst(t, pat, {p \in 1..Len(t) : ReScan(t, p, pat) /= <<>>})

(***************************************************************************)
(* StackFrame and Thread of src/dumpstate/vm_traces/__init__.py.           *)
(***************************************************************************)
HexCh16 == Digit \cup {"a", "b", "c", "d", "e", "f", "A", "B", "C", "D", "E", "F"}

NewStackFrame ==
    [frame_type |-> PyBytes(<<>>), method |-> PyBytes(<<>>), file_loc |-> PyBytes(<<>>),
     line_number |-> PyNum(0), address |-> PyBytes(<<>>), library |-> PyBytes(<<>>),
     details |-> PyBytes(<<>>)]

NewThread ==
    [name |-> PyBytes(<<>>), priority |-> PyNum(0), tid |-> PyNum(0),
     status |-> PyBytes(<<>>), is_daemon |-> FALSE, properties |-> <<>>,
     stack_trace |-> <<>>]

NewAnrTrace == [header |-> <<>>, process_info |-> <<>>, threads |-> <<>>]

\* #\d{2}\s+pc\s+([0-9a-fA-F]+)\s+([^\(]+)\s*\((.*?)\): of the whitespace after the
\* address, group 2 takes all but the first character (and the code strips group 2)
NativePattern ==
    <<ReLit(<<"#">>), ReOne(Digit), ReOne(Digit), RePlus(Ws), ReLit(<<"p", "c">>),
      RePlus(Ws), RePlus(HexCh16), ReOne(Ws), ReUntil1({"("}), ReLit(<<"(">>),
      ReUntil({")"}), ReLit(<<")">>)>>

NativeFill(self, t, m) ==
    IF m = <<>> THEN self
    ELSE [self EXCEPT !.address = PyBytes(Slice(t, m[7], m[8])),
                      !.library = PyBytes(Strip(Slice(t, m[9], m[10]))),
                      !.details = PyBytes(Strip(Slice(t, m[11], m[12])))]

\* StackFrame._parse_native_frame
StackFrame_parse_native_frame(self, raw_frame) ==
    NativeFill(self, raw_frame, ReSearch(raw_frame, NativePattern))

\* \(([^:]+):?(\d*)\) matched at p: the end of group 1 (0 for no match).  Group 1 is
\* the longest text without a colon after which an optional colon (only where the
\* text stopped at one), digits and the closing parenthesis follow.
ManagedEnds(t, p, c) ==
    {k \in (p + 2)..c :
        \/ /\ k = c /\ k <= Len(t)
           /\ HasAt(t, RunEnd(t, k + 1, Digit), <<")">>)
        \/ /\ k <= Len(t) /\ t[k] /= ":"
           /\ HasAt(t, RunEnd(t, k, Digit), <<")">>)}

ManagedMax(ends) == IF ends = {} THEN 0 ELSE Max(ends)

ManagedGroupEnd(t, p) ==
    IF HasAt(t, p, <<"(">>) THEN ManagedMax(ManagedEnds(t, p, FindCh(t, p + 1, {":"})))
    ELSE 0

\* group 2 of the match whose group 1 ends before k
ManagedDigits(t, k) ==
    IF t[k] = ":" THEN Slice(t, k + 1, RunEnd(t, k + 1, Digit))
    ELSE Slice(t, k, RunEnd(t, k, Digit))

ManagedFill(self, method, p, k, ds) ==
    [self EXCEPT !.method = PyBytes(method),
                 !.file_loc = PyBytes(Slice(method, p + 1, k)),
                 !.line_number = IF ds = <<>> THEN @ ELSE PyNum(DigitsVal(ds))]

ManagedAt(self, method, p) ==
    ManagedFill(self, method, p, ManagedGroupEnd(method, p),
                ManagedDigits(method, ManagedGroupEnd(method, p)))

ManagedFirst(self, method, hits) ==
    IF hits = {} THEN [self EXCEPT !.method = PyBytes(method)]
    ELSE ManagedAt(self, method, Min(hits))

\* StackFrame._parse_managed_frame, method being raw without its 'at '
ManagedFrame(self, method) ==
    ManagedFirst(self, method, {p \in 1..Len(method) : ManagedGroupEnd(method, p) > 0})

StackFrame_parse_managed_frame(self, raw_frame) ==
    ManagedFrame(self, Replace(raw_frame, <<"a", "t", " ">>, <<>>))

\* StackFrame.parse
StackFrame_parse(line, frame_type) ==
    IF frame_type = "native"
    THEN StackFrame_parse_native_frame(
             [NewStackFrame EXCEPT !.frame_type = PyBytes(<<"n", "a", "t", "i", "v", "e">>)], Strip(line))
    ELSE StackFrame_parse_managed_frame(
             [NewStackFrame EXCEPT !.frame_type = PyBytes(<<"m", "a", "n", "a", "g", "e", "d">>)], Strip(line))

DaemonLit == <<"d", "a", "e", "m", "o", "n">>

\* "([^"]+)"\s+(daemon\s+)?prio=(\d+)\s+tid=(\d+)\s+(.*) with its optional group
DaemonPattern ==
    <<ReLit(<<"\"">>), ReUntil1({"\""}), ReLit(<<"\"">>), RePlus(Ws), ReLit(DaemonLit),
      RePlus(Ws), ReLit(<<"p", "r", "i", "o", "=">>), RePlus(Digit), RePlus(Ws), ReLit(<<"t", "i", "d", "=">>), RePlus(Digit),
      RePlus(Ws)>>

\* and without it
ThreadPattern ==
    <<ReLit(<<"\"">>), ReUntil1({"\""}), ReLit(<<"\"">>), RePlus(Ws),
      ReLit(<<"p", "r", "i", "o", "=">>), RePlus(Digit), RePlus(Ws), ReLit(<<"t", "i", "d", "=">>), RePlus(Digit),
      RePlus(Ws)>>

\* the fields of a match m whose group 3 is item n
ThreadFill(self, t, m, n) ==
    [self EXCEPT !.name = PyBytes(Slice(t, m[2], m[3])),
                 !.priority = PyNum(DigitsVal(Slice(t, m[n], m[n + 1]))),
                 !.tid = PyNum(DigitsVal(Slice(t, m[n + 3], m[n + 4]))),
                 !.status = PyBytes(Strip(Slice(t, m[n + 5], Len(t) + 1)))]

\* the leftmost of the matches with (d) and without (m) the optional group
ThreadPick(self, t, d, m) ==
    IF d = <<>> /\ m = <<>> THEN self
    ELSE IF m = <<>> \/ (d /= <<>> /\ d[1] <= m[1]) THEN ThreadFill(self, t, d, 8)
    ELSE ThreadFill(self, t, m, 6)

\* Thread._parse_header
Thread_parse_header(self, raw_header) ==
    ThreadPick(self, raw_header, ReSearch(raw_header, DaemonPattern),
               ReSearch(raw_header, ThreadPattern))

\* Thread.parse on a new Thread
Thread_parse(header_line) ==
    Thread_parse_header(
        [NewThread EXCEPT !.is_daemon = Contains(Strip(header_line), DaemonLit)],
        Strip(header_line))

SelfLit == <<"s", "e", "l", "f", "=">>

\* (\w+)=("([^"]*)"|([^\s]+)) with its first alternative
QuotedPattern == <<RePlus(WordCh), ReLit(<<"=", "\"">>), ReUntil({"\""}), ReLit(<<"\"">>)>>

\* and with its second
PlainPattern == <<RePlus(WordCh), ReLit(<<"=">>), ReUntil1(Ws)>>

\* the match at a position, given those of the alternatives: e the position after it
\* (0 for no match), the key and the value (the quoted text, or the unquoted one)
PropertyPick(t, quoted, plain) ==
    IF quoted /= <<>> /\ quoted[5] <= Len(t) + 1
    THEN [e |-> quoted[5], out |-> <<Slice(t, quoted[1], quoted[2]),
                                     Slice(t, quoted[3], quoted[4])>>]
    ELSE IF plain /= <<>>
    THEN [e |-> plain[4], out |-> <<Slice(t, plain[1], plain[2]),
                                    Slice(t, plain[3], plain[4])>>]
    ELSE NoMatch

PropertyAt(t, p) == PropertyPick(t, ReScan(t, p, QuotedPattern), ReScan(t, p, PlainPattern))

RECURSIVE PropertyPairs(_, _, _)
PropertyNext(part, m, properties) ==
    PropertyPairs(part, m.e, DictSet(properties, PyBytes(m.out[1]), PyBytes(m.out[2])))

PropertyFirst(part, hits, properties) ==
    IF hits = {} THEN properties
    ELSE PropertyNext(part, PropertyAt(part, Min(hits)), properties)

\* the loop over re.findall in Thread.add_property_line, from position i of part on
PropertyPairs(part, i, properties) ==
    PropertyFirst(part, {p \in i..Len(part) : PropertyAt(part, p).e > 0}, properties)

\* the body of the loop over parts: the key 'self' is a str, the keys of the pairs
\* are bytes
PropertyPart(properties, part) ==
    PropertyPairs(part, 1,
        IF Contains(part, SelfLit)
        THEN DictSet(properties, PyStr(<<"s", "e", "l", "f">>), PyBytes(SplitOn(part, SelfLit)[2]))
        ELSE properties)

RECURSIVE PropertyParts(_, _)
PropertyParts(properties, parts) ==
    IF parts = <<>> THEN properties
    ELSE PropertyParts(PropertyPart(properties, Strip(parts[1])), Tail(parts))

\* Thread.add_property_line
Thread_add_property_line(self, line) ==
    [self EXCEPT !.properties =
        PropertyParts(@, SelectSeq(Split(Strip(line), "|"), LAMBDA x : Strip(x) /= <<>>))]

\* Thread.add_stack_frame
Thread_add_stack_frame(self, frame) ==
    [self EXCEPT !.stack_trace = Append(@, frame)]

(***************************************************************************)
(* parse_account_service (src/dumpstate/services/account.py)               *)
(***************************************************************************)
NewUserAccount ==
    [user_info_raw |-> PyBytes(<<>>), user_id |-> PyNum(0), user_name |-> PyBytes(<<>>),
     user_flag |-> PyBytes(<<>>), accounts |-> <<>>, accounts_history |-> <<>>,
     active_sessions |-> PyNum(0), registered_services |-> <<>>,
     account_visibility |-> <<>>]

NewAccountInfo ==
    [service_pid |-> PyNum(0), threads_in_use |-> PyBytes(<<>>), client_pids |-> <<>>,
     users |-> <<>>]

AccountAnchor == <<"D", "U", "M", "P", " ", "O", "F", " ", "S", "E", "R", "V", "I", "C", "E", " ",
          "a", "c", "c", "o", "u", "n", "t", ":", "\n">>

AccountEnd == <<"\n", "-", "-", "-", "-", "-", "-", "-", "-", "-">>

UserInfoLit == <<"U", "s", "e", "r", " ", "U", "s", "e", "r", "I", "n", "f", "o">>

\* re.search(rb'DUMP OF SERVICE account:\n(.*?)\n---------', raw, re.DOTALL): the
\* first and last position of group 1, <<0, 0>> for no match
AccountBody(bytes) ==
    LET p == Find(bytes, AccountAnchor, 1)
        e == IF p = 0 THEN 0 ELSE Find(bytes, AccountEnd, p + Len(AccountAnchor))
    IN  IF e = 0 THEN <<0, 0>> ELSE <<p + Len(AccountAnchor), e - 1>>

\* content.strip().split(b'\n') of the group at positions body
BodyLines(bytes, body) == Split(Strip(SubSeq(bytes, body[1], body[2])), "\n")

\* UserInfo\{(\d+):([^:]+):([^}]+)\} matched at p: ok and the three groups
UserInfoAt(t, p) ==
    LET d == RunEnd(t, p + 9, Digit)
        c == FindCh(t, d + 1, {":"})
        b == FindCh(t, c + 1, {"}"})
    IN  IF /\ HasAt(t, p, <<"U", "s", "e", "r", "I", "n", "f", "o", "{">>)
           /\ d > p + 9 /\ HasAt(t, d, <<":">>)
           /\ c <= Len(t) /\ c > d + 1
           /\ b <= Len(t) /\ b > c + 1
        THEN [ok |-> TRUE, user_id |-> DigitsVal(Slice(t, p + 9, d)),
              user_name |-> Slice(t, d + 1, c), user_flag |-> Slice(t, c + 1, b)]
        ELSE [ok |-> FALSE, user_id |-> 0, user_name |-> <<>>, user_flag |-> <<>>]

\* the state of the loop of parse_account_service
AccState(raised_, account_info_, current_user_, parsing_section_, visibility_) ==
    [raised |-> raised_, account_info |-> account_info_, current_user |-> current_user_,
     parsing_section |-> parsing_section_, current_visibility_account |-> visibility_]

AccRaise(st, exc) == [st EXCEPT !.raised = exc]

\* the branch of a 'User UserInfo' line: the user being built is appended, a new one
\* begun and filled from the line
AccUserLine(st, line) ==
    LET users == IF st.current_user = PyNone THEN st.account_info.users
                 ELSE Append(st.account_info.users, st.current_user)
        hits == {p \in 1..Len(line) : UserInfoAt(line, p).ok}
        user == [NewUserAccount EXCEPT
                    !.user_info_raw =
                        PyBytes(Strip(Slice(line, Find(line, <<":">>, 1) + 1, Len(line) + 1)))]
    IN  IF ~Contains(line, <<":">>)
        THEN [st EXCEPT !.raised = "IndexError", !.account_info.users = users,
                        !.current_user = NewUserAccount]
        ELSE [st EXCEPT
                !.account_info.users = users,
                !.current_user =
                    IF hits = {} THEN user
                    ELSE [user EXCEPT
                            !.user_id = PyNum(UserInfoAt(line, Min(hits)).user_id),
                            !.user_name = PyBytes(UserInfoAt(line, Min(hits)).user_name),
                            !.user_flag = PyBytes(UserInfoAt(line, Min(hits)).user_flag)],
                !.parsing_section = "None",
                !.current_visibility_account = PyNone]

\* the branch 'elif parsing_section:' of a line of the user being built
AccContentLine(st, line) ==
    IF st.parsing_section = "accounts" /\ StartsWith(line, <<"A", "c", "c", "o", "u", "n", "t", " ", "{">>)
    THEN [st EXCEPT !.current_user.accounts = Append(@, line)]
    ELSE IF st.parsing_section = "history" /\ ~StartsWith(line, <<"A", "c", "c", "o", "u", "n", "t", "I", "d", ",">>)
    THEN [st EXCEPT !.current_user.accounts_history = Append(@, line)]
    ELSE IF st.parsing_section = "services" /\ StartsWith(line, <<"S", "e", "r", "v", "i", "c", "e", "I", "n", "f", "o", ":">>)
    THEN [st EXCEPT !.current_user.registered_services = Append(@, line)]
    ELSE IF st.parsing_section = "visibility"
    THEN IF st.current_visibility_account /= PyNone
         THEN [st EXCEPT !.current_user.account_visibility =
                  DictSet(@, st.current_visibility_account.v,
                          Append(DictGet(PyDict(@), st.current_visibility_account.v), line))]
         ELSE [st EXCEPT !.current_visibility_account = PyBytes(line),
                         !.current_user.account_visibility = DictSet(@, line, <<>>)]
    ELSE st

\* the branch 'elif current_user:'
AccCurrentUserLine(st, line) ==
    IF Contains(line, <<"A", "c", "c", "o", "u", "n", "t", "s", ":">>) THEN [st EXCEPT !.parsing_section = "accounts"]
    ELSE IF Contains(line, <<"A", "c", "c", "o", "u", "n", "t", "s", " ", "H", "i", "s", "t", "o", "r", "y">>) THEN [st EXCEPT !.parsing_section = "history"]
    ELSE IF Contains(line, <<"A", "c", "t", "i", "v", "e", " ", "S", "e", "s", "s", "i", "o", "n", "s", ":">>)
    THEN IF IsIntText(Split(line, ":")[2])
         THEN [st EXCEPT !.parsing_section = "sessions",
                         !.current_user.active_sessions = PyNum(IntTextVal(Split(line, ":")[2]))]
         ELSE [st EXCEPT !.parsing_section = "sessions", !.raised = "ValueError"]
    ELSE IF Contains(line, <<"R", "e", "g", "i", "s", "t", "e", "r", "e", "d", "S", "e", "r", "v", "i", "c",
          "e", "s", "C", "a", "c", "h", "e", ":">>)
    THEN [st EXCEPT !.parsing_section = "services"]
    ELSE IF Contains(line, <<"A", "c", "c", "o", "u", "n", "t", " ", "v", "i", "s", "i", "b", "i", "l", "i",
          "t", "y", ":">>)
    THEN [st EXCEPT !.parsing_section = "visibility"]
    ELSE IF StartsWith(line, <<"-", "-", "-", "-", "-", "-", "-", "-", "-">>) THEN [st EXCEPT !.parsing_section = "None"]
    ELSE IF st.parsing_section /= "None" THEN AccContentLine(st, line)
    ELSE st

\* the body of the loop of parse_account_service, line being stripped already
AccStrippedLine(st, line) ==
    IF line = <<>> THEN st
    ELSE IF StartsWith(line, <<"S", "e", "r", "v", "i", "c", "e", " ", "h", "o", "s", "t", " ", "p", "r", "o",
          "c", "e", "s", "s", " ", "P", "I", "D", ":">>)
    THEN IF IsIntText(Split(line, ":")[2])
         THEN [st EXCEPT !.account_info.service_pid = PyNum(IntTextVal(Split(line, ":")[2]))]
         ELSE AccRaise(st, "ValueError")
    ELSE IF StartsWith(line, <<"T", "h", "r", "e", "a", "d", "s", " ", "i", "n", " ", "u", "s", "e", ":">>)
    THEN [st EXCEPT !.account_info.threads_in_use = PyBytes(Strip(Split(line, ":")[2]))]
    ELSE IF StartsWith(line, <<"C", "l", "i", "e", "n", "t", " ", "P", "I", "D", "s", ":">>)
    THEN IF \A n \in 1..Len(SplitOn(Strip(Split(line, ":")[2]), <<",", " ">>)) :
                IsIntText(SplitOn(Strip(Split(line, ":")[2]), <<",", " ">>)[n])
         THEN [st EXCEPT !.account_info.client_pids =
                             ClientPids(SplitOn(Strip(Split(line, ":")[2]), <<",", " ">>))]
         ELSE AccRaise(st, "ValueError")
    ELSE IF StartsWith(line, UserInfoLit) THEN AccUserLine(st, line)
    ELSE IF st.current_user /= PyNone THEN AccCurrentUserLine(st, line)
    ELSE st

AccLine(st, line) == AccStrippedLine(st, Strip(line))

(***************************************************************************)
(* parse_keyguard_service (src/dumpstate/services/keyguard.py)             *)
(***************************************************************************)
NewKeyguardServiceInfo ==
    [service_hash |-> PyBytes(<<>>), pid |-> PyNum(0), user |-> PyNum(0),
     unlock_info_log |-> <<>>, user_settings |-> <<>>]

KeyguardAnchor == <<"S", "E", "R", "V", "I", "C", "E", " ", "c", "o", "m", ".", "a", "n", "d", "r",
          "o", "i", "d", ".", "s", "y", "s", "t", "e", "m", "u", "i", "/", ".", "k", "e",
          "y", "g", "u", "a", "r", "d", ".", "K", "e", "y", "g", "u", "a", "r", "d", "S",
          "e", "r", "v", "i", "c", "e">>

KeyguardClass == <<"c", "o", "m", ".", "a", "n", "d", "r", "o", "i", "d", ".", "s", "y", "s", "t",
          "e", "m", "u", "i", "/", ".", "k", "e", "y", "g", "u", "a", "r", "d", ".", "K",
          "e", "y", "g", "u", "a", "r", "d", "S", "e", "r", "v", "i", "c", "e">>

HashCh == Digit \cup {"a", "b", "c", "d", "e", "f"}

\* the body of the first loop of parse_keyguard_service: [current_section,
\* section_lines] after line
KgCollectLine(cur, acc, line) ==
    IF StartsWith(line, KeyguardAnchor) THEN <<"keyguard", <<line>> >>
    ELSE IF StartsWith(line, SectionPrefix) /\ Contains(line, DurationLit)
    THEN <<"None", acc>>
    ELSE IF cur /= "None" THEN <<cur, Append(acc, line)>>
    ELSE <<cur, acc>>

\* SERVICE\s+com\.android\.systemui/\.keyguard\.KeyguardService\s+([a-f0-9]+)\s+
\* pid=(\d+)\s+user=(\d+) matched at p: ok and the three groups
KgHeaderAt(t, p) ==
    LET a == RunEnd(t, p + 7, Ws)
        b == RunEnd(t, a + Len(KeyguardClass), Ws)
        c == RunEnd(t, b, HashCh)
        d == RunEnd(t, c, Ws)
        e == RunEnd(t, d + 4, Digit)
        f == RunEnd(t, e, Ws)
        g == RunEnd(t, f + 5, Digit)
    IN  IF /\ HasAt(t, p, <<"S", "E", "R", "V", "I", "C", "E">>)
           /\ a > p + 7 /\ HasAt(t, a, KeyguardClass)
           /\ b > a + Len(KeyguardClass)
           /\ c > b
           /\ d > c /\ HasAt(t, d, <<"p", "i", "d", "=">>)
           /\ e > d + 4
           /\ f > e /\ HasAt(t, f, <<"u", "s", "e", "r", "=">>)
           /\ g > f + 5
        THEN [ok |-> TRUE, service_hash |-> Slice(t, b, c),
              pid |-> DigitsVal(Slice(t, d + 4, e)), user |-> DigitsVal(Slice(t, f + 5, g))]
        ELSE [ok |-> FALSE, service_hash |-> <<>>, pid |-> 0, user |-> 0]

\* re.search of the header pattern in section_lines[0]: the match of the leftmost
\* position, or one with ok FALSE
KgHeaderMatch(t) ==
    LET hits == {p \in 1..Len(t) : KgHeaderAt(t, p).ok}
    IN  IF hits = {} THEN KgHeaderAt(t, 0) ELSE KgHeaderAt(t, Min(hits))

\* re.search(rb'User\s+(\d+)', t): [ok, user]
KgUserMatch(t) ==
    LET at(p) == RunEnd(t, p + 4, Ws)
        hits == {p \in 1..Len(t) :
                    /\ HasAt(t, p, <<"U", "s", "e", "r">>)
                    /\ at(p) > p + 4
                    /\ RunEnd(t, at(p), Digit) > at(p)}
    IN  IF hits = {} THEN [ok |-> FALSE, user |-> 0]
        ELSE [ok |-> TRUE,
              user |-> DigitsVal(Slice(t, at(Min(hits)), RunEnd(t, at(Min(hits)), Digit)))]

\* \d{2}-\d{2}\s\d{2}:\d{2}:\d{2}\.\d{3} at the start of t
KgTimestampShape == <<"d", "d", "-", "d", "d", "s", "d", "d", ":", "d", "d", ":", "d", "d", ".",
                      "d", "d", "d">>

KgTimestampAt(t) ==
    /\ Len(t) >= Len(KgTimestampShape)
    /\ \A n \in 1..Len(KgTimestampShape) :
          IF KgTimestampShape[n] = "d" THEN t[n] \in Digit
          ELSE IF KgTimestampShape[n] = "s" THEN t[n] \in Ws
          ELSE t[n] = KgTimestampShape[n]

\* re.match(rb'(\d{2}-\d{2}\s\d{2}:\d{2}:\d{2}\.\d{3})\s+(.*)', t): [ok, timestamp,
\* message]
KgLogMatch(t) ==
    LET a == RunEnd(t, Len(KgTimestampShape) + 1, Ws)
    IN  IF KgTimestampAt(t) /\ a > Len(KgTimestampShape) + 1
        THEN [ok |-> TRUE, timestamp |-> Slice(t, 1, Len(KgTimestampShape) + 1),
              message |-> Slice(t, a, Len(t) + 1)]
        ELSE [ok |-> FALSE, timestamp |-> <<>>, message |-> <<>>]

\* the state of the second loop of parse_keyguard_service
KgState(service_info_, in_unlock_info_, current_user_settings_) ==
    [service_info |-> service_info_, in_unlock_info |-> in_unlock_info_,
     current_user_settings |-> current_user_settings_]

\* the body of the second loop, stripped_line being line.strip()
KgStrippedLine(st, stripped_line) ==
    IF Contains(stripped_line, <<"K", "e", "y", "g", "u", "a", "r", "d", "U", "n", "l", "o", "c", "k", "I", "n",
          "f", "o">>)
    THEN [st EXCEPT !.in_unlock_info = TRUE]
    ELSE IF StartsWith(stripped_line, <<"U", "s", "e", "r", " ">>)
    THEN IF KgUserMatch(stripped_line).ok
         THEN [st EXCEPT
                 !.in_unlock_info = FALSE,
                 !.current_user_settings = PyNum(KgUserMatch(stripped_line).user),
                 !.service_info.user_settings =
                     DictSet(@, KgUserMatch(stripped_line).user, <<>>)]
         ELSE [st EXCEPT !.in_unlock_info = FALSE]
    ELSE IF st.in_unlock_info
    THEN IF KgLogMatch(stripped_line).ok
         THEN [st EXCEPT !.service_info.unlock_info_log =
                  Append(@, [timestamp |-> KgLogMatch(stripped_line).timestamp,
                             message |-> KgLogMatch(stripped_line).message])]
         ELSE st
    ELSE IF st.current_user_settings /= PyNone /\ Contains(stripped_line, <<":">>)
    THEN [st EXCEPT !.service_info.user_settings =
             DictSet(@, st.current_user_settings.v,
                     DictSet(DictGet(PyDict(@), st.current_user_settings.v),
                             SplitOnce(stripped_line, <<":">>)[1],
                             PyBytes(SplitOnce(stripped_line, <<":">>)[2])))]
    ELSE st

KgLine(st, line) == KgStrippedLine(st, Strip(line))

(***************************************************************************)
(* parse_lsmod (src/dumpstate/kernel/lsmod.py) and parse_mount_points      *)
(* (src/dumpstate/mount/__init__.py)                                       *)
(***************************************************************************)
\* re.search(start + rb'(.*?)' + end, raw, re.DOTALL) for literal start and end: the
\* first and last position of group 1, <<0, 0>> for no match
BodyBetween(bytes, start, end) ==
    LET p == Find(bytes, start, 1)
        e == IF p = 0 THEN 0 ELSE Find(bytes, end, p + Len(start))
    IN  IF e = 0 THEN <<0, 0>> ELSE <<p + Len(start), e - 1>>

LsmodAnchor == <<"-", "-", "-", "-", "-", "-", " ", "L", "S", "M", "O", "D", " ", "(", "l", "s",
          "m", "o", "d", ")", " ", "-", "-", "-", "-", "-", "-", "\n">>

MountAnchor == <<"-", "-", "-", "-", "-", "-", " ", "M", "O", "U", "N", "T", " ", "P", "O", "I",
          "N", "T", " ", "D", "U", "M", "P", " ", "(", "m", "o", "u", "n", "t", ")", " ",
          "-", "-", "-", "-", "-", "-", "\n">>

SectionEnd == <<"\n", "-", "-", "-", "-", "-", "-">>

ModuleLit == <<"M", "o", "d", "u", "l", "e">>

NewLoadedModule == [name |-> PyBytes(<<>>), size |-> PyNum(0), used_by |-> <<>>]

NewMountPoint ==
    [device |-> PyBytes(<<>>), path |-> PyBytes(<<>>), mount_type |-> PyBytes(<<>>),
     options |-> <<>>]

\* module.strip(b',')
StripCommas(t) ==
    LET keep == {n \in 1..Len(t) : t[n] /= ","}
    IN  IF keep = {} THEN <<>> ELSE SubSeq(t, Min(keep), Max(keep))

\* LoadedModule.parse on a new LoadedModule: [exc, lm]
LoadedModule_parse(raw_line) ==
    LET parts == SplitWs(Strip(raw_line))
    IN  IF raw_line = <<>> \/ Len(parts) < 3 THEN [exc |-> "", lm |-> NewLoadedModule]
        ELSE IF ~IsIntText(parts[2])
        THEN [exc |-> "ValueError", lm |-> [NewLoadedModule EXCEPT !.name = PyBytes(parts[1])]]
        ELSE [exc |-> "",
              lm |-> [name |-> PyBytes(parts[1]), size |-> PyNum(IntTextVal(parts[2])),
                      used_by |-> [n \in 1..(Len(parts) - 3) |-> StripCommas(parts[n + 3])]]]

\* (\S+)\s+on\s+(\S+)\s+type\s+(\S+)\s+\((.*?)\) matched at the start of t: ok and
\* the four groups
MountMatch(t) ==
    LET a == FindCh(t, 1, Ws)
        b == RunEnd(t, a, Ws)
        c == RunEnd(t, b + 2, Ws)
        d == FindCh(t, c, Ws)
        e == RunEnd(t, d, Ws)
        f == RunEnd(t, e + 4, Ws)
        g == FindCh(t, f, Ws)
        h == RunEnd(t, g, Ws)
        k == FindCh(t, h + 1, {")"})
    IN  IF /\ a > 1
           /\ b > a /\ HasAt(t, b, <<"o", "n">>)
           /\ c > b + 2
           /\ d > c
           /\ e > d /\ HasAt(t, e, <<"t", "y", "p", "e">>)
           /\ f > e + 4
           /\ g > f
           /\ h > g /\ HasAt(t, h, <<"(">>)
           /\ k <= Len(t)
        THEN [ok |-> TRUE, device |-> Slice(t, 1, a), path |-> Slice(t, c, d),
              mount_type |-> Slice(t, f, g), options |-> Slice(t, h + 1, k)]
        ELSE [ok |-> FALSE, device |-> <<>>, path |-> <<>>, mount_type |-> <<>>,
              options |-> <<>>]

\* MountPoint.parse on a new MountPoint
MountPoint_parse(raw_line) ==
    LET m == MountMatch(Strip(raw_line))
    IN  IF ~m.ok THEN NewMountPoint
        ELSE [device |-> PyBytes(m.device), path |-> PyBytes(m.path),
              mount_type |-> PyBytes(m.mount_type),
              options |-> Map(Strip, Split(m.options, ","))]

(***************************************************************************)
(* parse_anr_traces (src/dumpstate/vm_traces/__init__.py)                  *)
(***************************************************************************)
AnrAnchor == <<"-", "-", "-", "-", "-", "-", " ", "V", "M", " ", "T", "R", "A", "C", "E", "S",
          " ", "A", "T", " ", "L", "A", "S", "T", " ", "A", "N", "R", " ">>

AnrAnchorEnd == <<" ", "-", "-", "-", "-", "-", "-", "\n">>

AnrEndLit == <<"\n", "-", "-", "-", "-", "-", " ", "e", "n", "d", " ">>

AnrEndDashes == <<" ", "-", "-", "-", "-", "-">>

NativeColon == <<"n", "a", "t", "i", "v", "e", ":">>

NativeHash == <<"n", "a", "t", "i", "v", "e", ":", " ", "#">>

\* \n----- end \d+ ----- matched at e
AnrEndAt(bytes, e) ==
    /\ HasAt(bytes, e, AnrEndLit)
    /\ RunEnd(bytes, e + Len(AnrEndLit), Digit) > e + Len(AnrEndLit)
    /\ HasAt(bytes, RunEnd(bytes, e + Len(AnrEndLit), Digit), AnrEndDashes)

\* re.search(rb'------ VM TRACES AT LAST ANR .*? ------\n(.*?)\n----- end \d+ -----',
\* raw, re.DOTALL): the first and last position of group 1, <<0, 0>> for no match
AnrBody(bytes) ==
    LET p == Find(bytes, AnrAnchor, 1)
        q == IF p = 0 THEN 0 ELSE Find(bytes, AnrAnchorEnd, p + Len(AnrAnchor))
        ends == {e \in (q + Len(AnrAnchorEnd))..Len(bytes) : AnrEndAt(bytes, e)}
    IN  IF q = 0 \/ ends = {} THEN <<0, 0>>
        ELSE <<q + Len(AnrAnchorEnd), Min(ends) - 1>>

UpperSeq ==
    <<"A", "B", "C", "D", "E", "F", "G", "H", "I", "J", "K", "L", "M",
      "N", "O", "P", "Q", "R", "S", "T", "U", "V", "W", "X", "Y", "Z">>

LowerSeq ==
    <<"a", "b", "c", "d", "e", "f", "g", "h", "i", "j", "k", "l", "m",
      "n", "o", "p", "q", "r", "s", "t", "u", "v", "w", "x", "y", "z">>

\* bytes.lower() of one character
LowerOf(c) ==
    IF c \in Upper THEN LowerSeq[CHOOSE n \in 1..26 : UpperSeq[n] = c] ELSE c

\* key.lower().replace(b' ', b'_')
HeaderKey(key) == [n \in 1..Len(key) |-> IF key[n] = " " THEN "_" ELSE LowerOf(key[n])]

\* anr_trace.header[key.lower().replace(b' ', b'_')] = value
AnrHeaderSet(header, kv) == DictSet(header, HeaderKey(kv[1]), PyBytes(kv[2]))

\* the first two branches of the loop body: the header of the trace
AnrHeaderLine(header, line) ==
    IF StartsWith(line, <<"S", "u", "b", "j", "e", "c", "t", ":">>)
    THEN DictSet(header, <<"s", "u", "b", "j", "e", "c", "t">>, PyBytes(SplitOnce(line, <<":">>)[2]))
    ELSE IF /\ Contains(line, <<":">>)
            /\ ~Contains(line, <<"p", "i", "d">>)
            /\ ~StartsWith(Strip(line), <<"|">>)
            /\ ~StartsWith(Strip(line), <<"a", "t", " ">>)
            /\ ~StartsWith(Strip(line), NativeColon)
            /\ line[1] \in Lower \cup Upper
    THEN AnrHeaderSet(header, SplitOnce(line, <<":">>))
    ELSE header

\* pid\s+(\d+)\s+at\s+(.*)
AnrPidPattern ==
    <<ReLit(<<"p", "i", "d">>), RePlus(Ws), RePlus(Digit), RePlus(Ws), ReLit(<<"a", "t">>), RePlus(Ws)>>

\* the branch of a '----- pid' line, m being the match of the pattern
AnrPidLine(process_info, line, m) ==
    IF m = <<>> THEN process_info
    ELSE DictSet(DictSet(process_info, "pid", PyNum(DigitsVal(Slice(line, m[3], m[4])))),
                 "timestamp", PyBytes(Strip(Slice(line, m[7], Len(line) + 1))))

\* the branches of the process information
AnrProcessLine(process_info, line) ==
    IF StartsWith(line, <<"-", "-", "-", "-", "-", " ", "p", "i", "d">>)
    THEN AnrPidLine(process_info, line, ReSearch(line, AnrPidPattern))
    ELSE IF StartsWith(line, <<"C", "m", "d", " ", "l", "i", "n", "e", ":">>)
    THEN DictSet(process_info, "cmd_line", PyBytes(SplitOnce(line, <<":">>)[2]))
    ELSE IF StartsWith(line, <<"B", "u", "i", "l", "d", " ", "f", "i", "n", "g", "e", "r", "p", "r", "i", "n",
          "t", ":">>)
    THEN DictSet(process_info, "build_fingerprint", PyBytes(SplitOnce(line, <<":">>)[2]))
    ELSE IF StartsWith(line, <<"A", "B", "I", ":">>)
    THEN DictSet(process_info, "abi", PyBytes(SplitOnce(line, <<":">>)[2]))
    ELSE process_info

\* sf.parse(line.replace(b'native:', b'').strip(), b'native')
NativeFrame(line) == StackFrame_parse(Strip(Replace(line, NativeColon, <<>>)), "native")

\* j when the look-ahead loop ends (0-based, as i): the first index after i whose line
\* does not begin, stripped, with 'native: #', or len(lines)
NativeRunEnd(all_lines, i) ==
    Min({j \in (i + 1)..Len(all_lines) :
            j = Len(all_lines) \/ ~StartsWith(Strip(all_lines[j + 1]), NativeHash)})

\* the state of the loop of parse_anr_traces
AnrState(i, anr_trace_, current_thread_) ==
    [i |-> i, anr_trace |-> anr_trace_, current_thread |-> current_thread_]

\* the branch of a 'native:' line without 'i = j - 1': the lines of the run after the
\* first are met again by the outer loop
AnrNativeRunCursorKept(st, all_lines, j) ==
    [st EXCEPT !.current_thread.stack_trace =
                   @ \o [n \in 1..(j - st.i) |-> NativeFrame(all_lines[st.i + n])]]

\* the branch of a 'native:' line: the frames of the lines i .. j - 1, then i = j - 1
AnrNativeRun(st, all_lines, j) ==
    [st EXCEPT !.current_thread.stack_trace =
                   @ \o [n \in 1..(j - st.i) |-> NativeFrame(all_lines[st.i + n])],
               !.i = j - 1]

\* the branches of the threads: a header closes the thread being built and opens a
\* new one; a 'native:' line takes the following 'native: #' lines with it
AnrThreadLine(st, all_lines, line) ==
    IF StartsWith(line, <<"\"">>)
    THEN [st EXCEPT
            !.anr_trace.threads =
                IF st.current_thread = PyNone THEN @ ELSE Append(@, st.current_thread),
            !.current_thread = Thread_parse(line)]
    ELSE IF st.current_thread = PyNone THEN st
    ELSE IF StartsWith(Strip(line), <<"|">>)
    THEN [st EXCEPT !.current_thread = Thread_add_property_line(@, line)]
    ELSE IF StartsWith(Strip(line), <<"a", "t", " ">>)
    THEN [st EXCEPT !.current_thread =
             Thread_add_stack_frame(@, StackFrame_parse(line, "managed"))]
    ELSE IF StartsWith(Strip(line), NativeColon)
    THEN AnrNativeRun(st, all_lines, NativeRunEnd(all_lines, st.i))
    ELSE IF Contains(line, <<"h", "e", "l", "d", " ", "m", "u", "t", "e", "x", "e", "s", "=">>)
    THEN [st EXCEPT !.current_thread =
             Thread_add_property_line(@, <<"|", " ">> \o Strip(line))]
    ELSE st

\* one turn of the while loop, i += 1 included
AnrStep(st, all_lines) ==
    LET line == all_lines[st.i + 1]
        after == AnrThreadLine(
                    [st EXCEPT !.anr_trace.header = AnrHeaderLine(@, line),
                               !.anr_trace.process_info = AnrProcessLine(@, line)],
                    all_lines, line)
    IN  [after EXCEPT !.i = @ + 1]

(***************************************************************************)
(* The actions of parse_anr_traces.                                        *)
(***************************************************************************)
anrLocals == <<warnings, raised>>

\* the search of the section and the statements up to the loop
AnrSearch ==
    /\ pc = "anr_search"
    /\ IF AnrBody(raw)[1] = 0
       THEN result' = "None" /\ pc' = "done" /\ UNCHANGED anr_lines
       ELSE /\ anr_lines' = Split(SubSeq(raw, AnrBody(raw)[1], AnrBody(raw)[2]), "\n")
            /\ pc' = "anr_loop"
            /\ UNCHANGED result
    /\ UNCHANGED <<anr_i, anr_trace, current_thread, anrLocals, nonAnrVars>>

AnrLoopTo(st) ==
    /\ anr_i' = st.i
    /\ anr_trace' = st.anr_trace
    /\ current_thread' = st.current_thread
    /\ pc' = IF st.i < Len(anr_lines) THEN pc ELSE "anr_return"

\* one turn of 'while i < len(lines)'
AnrLoop ==
    /\ pc = "anr_loop"
    /\ AnrLoopTo(AnrStep(AnrState(anr_i, anr_trace, current_thread), anr_lines))
    /\ UNCHANGED <<anr_lines, result, anrLocals, nonAnrVars>>

\* the return without 'if current_thread: anr_trace.threads.append(current_thread)':
\* the thread open at the end of the section is lost
AnrReturnOpenDropped ==
    /\ pc = "anr_return"
    /\ result' = "AnrTrace"
    /\ pc' = "done"
    /\ UNCHANGED <<anr_lines, anr_i, anr_trace, current_thread, anrLocals, nonAnrVars>>

\* the statements after the loop
AnrReturn ==
    /\ pc = "anr_return"
    /\ anr_trace' = IF current_thread = PyNone THEN anr_trace
                    ELSE [anr_trace EXCEPT !.threads = Append(@, current_thread)]
    /\ result' = "AnrTrace"
    /\ pc' = "done"
    /\ UNCHANGED <<anr_lines, anr_i, current_thread, anrLocals, nonAnrVars>>

AnrNext ==
    \/ AnrSearch
    \/ AnrLoop
    \/ AnrReturn

(***************************************************************************)
(* parse_dumpstate_header (src/dumpstate/header/__init__.py).              *)
(***************************************************************************)
NewDumpstateHeader ==
    [timestamp |-> PyNone, build |-> PyNone, build_fingerprint |-> PyNone,
     bootloader |-> PyNone, radio |-> PyNone, network |-> PyNone,
     sdk_version |-> PyNum(0), sdk_extensions |-> <<>>, kernel |-> PyNone,
     command_line |-> PyNone, uptime |-> <<>>]

HdrAnchor == <<"=", "=", " ", "d", "u", "m", "p", "s", "t", "a", "t", "e", ":", " ">>

HdrRule ==
    <<"\n", "=", "=", "=", "=", "=", "=", "=", "=", "=", "=", "=", "=", "=", "=", "=",
          "=", "=", "=", "=", "=", "=", "=", "=", "=", "=", "=", "=", "=", "=", "=", "=",
          "=", "=", "=", "=", "=", "=", "=", "=", "=", "=", "=", "=", "=", "=", "=", "=",
          "=", "=", "=", "=", "=", "=", "=", "=", "=", "\n", "\n">>

SectionDashes == <<"\n", "-", "-", "-", "-", "-", "-">>

\* re.search(rb'== dumpstate: (.*?)\n={56}\n\n(.*?)(?=\n------\s|\Z)', raw, re.DOTALL):
\* group 1 ends at the first rule after the anchor, group 2 at the first '\n------'
\* followed by whitespace, or at the end of the bytes
HdrMatch(bytes) ==
    LET p == Find(bytes, HdrAnchor, 1)
        r == IF p = 0 THEN 0 ELSE Find(bytes, HdrRule, p + Len(HdrAnchor))
        stops == {f \in (r + Len(HdrRule))..Len(bytes) :
                     /\ HasAt(bytes, f, SectionDashes)
                     /\ f + Len(SectionDashes) <= Len(bytes)
                     /\ bytes[f + Len(SectionDashes)] \in Ws}
    IN  IF r = 0 THEN [found |-> FALSE, group1 |-> <<>>, group2 |-> <<>>]
        ELSE [found |-> TRUE,
              group1 |-> Slice(bytes, p + Len(HdrAnchor), r),
              group2 |-> Slice(bytes, r + Len(HdrRule),
                               IF stops = {} THEN Len(bytes) + 1 ELSE Min(stops))]

\* key.strip().lower().replace(b' ', b'_').replace(b'-', b'_')
HdrKeyOf(line) ==
    LET k == Strip(Slice(line, 1, Find(line, <<":">>, 1)))
    IN  [n \in 1..Len(k) |-> IF k[n] \in {" ", "-"} THEN "_" ELSE LowerOf(k[n])]

\* value.strip() of line.split(b':', 1)
HdrValueOf(line) == Strip(Slice(line, Find(line, <<":">>, 1) + 1, Len(line) + 1))

Key_sdk_version == <<"s", "d", "k", "_", "v", "e", "r", "s", "i", "o", "n">>

Key_sdk_extensions == <<"s", "d", "k", "_", "e", "x", "t", "e", "n", "s", "i", "o", "n", "s">>

Key_uptime == <<"u", "p", "t", "i", "m", "e">>

\* the fields of DumpstateHeader that setattr(header, key, value) fills
HdrBytesField(key) ==
    IF key = <<"t", "i", "m", "e", "s", "t", "a", "m", "p">> THEN "timestamp"
    ELSE IF key = <<"b", "u", "i", "l", "d">> THEN "build"
    ELSE IF key = <<"b", "u", "i", "l", "d", "_", "f", "i", "n", "g", "e", "r", "p", "r", "i", "n",
          "t">> THEN "build_fingerprint"
    ELSE IF key = <<"b", "o", "o", "t", "l", "o", "a", "d", "e", "r">> THEN "bootloader"
    ELSE IF key = <<"r", "a", "d", "i", "o">> THEN "radio"
    ELSE IF key = <<"n", "e", "t", "w", "o", "r", "k">> THEN "network"
    ELSE IF key = <<"k", "e", "r", "n", "e", "l">> THEN "kernel"
    ELSE IF key = <<"c", "o", "m", "m", "a", "n", "d", "_", "l", "i", "n", "e">> THEN "command_line"
    ELSE ""

\* (\w+)=(\d+) matched at p
ExtAt(t, p) ==
    LET a == RunEnd(t, p, WordCh)
        c == RunEnd(t, a + 1, Digit)
    IN  IF a > p /\ a <= Len(t) /\ t[a] = "=" /\ c > a + 1
        THEN [e |-> c, out |-> <<Slice(t, p, a), PyNum(DigitsVal(Slice(t, a + 1, c)))>>]
        ELSE NoMatch

LoadAverageLit == <<"l", "o", "a", "d", " ", "a", "v", "e", "r", "a", "g", "e", ":">>

FloatCh == Digit \cup {"."}

\* load average: ([\d\.]+), ([\d\.]+), ([\d\.]+) matched at p: the three groups
LoadAverageAt(t, p) ==
    LET a == p + Len(LoadAverageLit) + 1
        b == RunEnd(t, a, FloatCh)
        c == RunEnd(t, b + 2, FloatCh)
        d == RunEnd(t, c + 2, FloatCh)
    IN  IF /\ HasAt(t, p, LoadAverageLit \o <<" ">>)
           /\ b > a /\ HasAt(t, b, <<",", " ">>)
           /\ c > b + 2 /\ HasAt(t, c, <<",", " ">>)
           /\ d > c + 2
        THEN <<Slice(t, a, b), Slice(t, b + 2, c), Slice(t, c + 2, d)>>
        ELSE <<>>

\* \s+load average: matched at k
GapThenLoadAverage(t, k) ==
    /\ k <= Len(t) /\ t[k] \in Ws
    /\ HasAt(t, RunEnd(t, k, Ws), LoadAverageLit)

\* the ends e of group 1 of up (.*?),?\s+load average: matched at p
UptimeEnds(t, p) ==
    {e \in (p + 3)..Len(t) :
        /\ \A m \in (p + 3)..(e - 1) : t[m] /= "\n"
        /\ \/ GapThenLoadAverage(t, e)
           \/ t[e] = "," /\ GapThenLoadAverage(t, e + 1)}

\* group 1 of re.search(rb'up (.*?),?\s+load average:', value), stripped
UptimeDuration(t) ==
    LET starts == {p \in 1..Len(t) : HasAt(t, p, <<"u", "p", " ">>) /\ UptimeEnds(t, p) /= {}}
    IN  IF starts = {} THEN [found |-> FALSE, str |-> <<>>]
        ELSE [found |-> TRUE,
              str |-> Strip(Slice(t, Min(starts) + 3, Min(UptimeEnds(t, Min(starts)))))]

DurationUnits == {<<"w", "e", "e", "k">>, <<"d", "a", "y">>, <<"h", "o", "u", "r">>, <<"m", "i", "n", "u", "t", "e">>}

\* (\d+)\s+(week|day|hour|minute)s? matched at p: unit + b's' and int(val)
DurationAt(t, p) ==
    LET a == RunEnd(t, p, Digit)
        w == RunEnd(t, a, Ws)
        units == {u \in DurationUnits : HasAt(t, w, u)}
        unit == CHOOSE u \in units : TRUE
    IN  IF a > p /\ w > a /\ units /= {}
        THEN [e |-> IF HasAt(t, w + Len(unit), <<"s">>) THEN w + Len(unit) + 1
                    ELSE w + Len(unit),
              out |-> <<unit \o <<"s">>, PyNum(DigitsVal(Slice(t, p, a)))>>]
        ELSE NoMatch

\* the branch of the key 'uptime'
HdrUptime(uptime, value) ==
    LET at == {p \in 1..Len(value) : LoadAverageAt(value, p) /= <<>>}
        load == IF at = {} THEN <<>> ELSE LoadAverageAt(value, Min(at))
        dur == UptimeDuration(value)
        first == IF load = <<>> THEN uptime
                 ELSE DictSet(uptime, <<"l", "o", "a", "d", "_", "a", "v", "e", "r", "a", "g", "e">>,
                              PyDict(<<<<<<"1", "m">>, PyFloat(load[1])>>,
                                       <<<<"5", "m">>, PyFloat(load[2])>>,
                                       <<<<"1", "5", "m">>, PyFloat(load[3])>>>>))
    IN  IF load /= <<>> /\ \E n \in 1..3 : ~IsFloatText(load[n])
        THEN [exc |-> "ValueError", uptime |-> uptime]
        ELSE IF ~dur.found THEN [exc |-> "", uptime |-> first]
        ELSE [exc |-> "",
              uptime |-> DictSet(DictSet(first, <<"r", "a", "w", "_", "d", "u", "r", "a", "t", "i", "o", "n">>, PyBytes(dur.str)),
                                 <<"d", "u", "r", "a", "t", "i", "o", "n">>,
                                 PyDict(FindAllDict(DurationAt, dur.str, 1, <<>>)))]

\* 'if hasattr(header, key.decode("utf-8")):' and its branches, for keys made of the
\* characters of the reports here (of the attributes of the object they can only
\* name the declared fields): [exc, header]
HdrField(h, key, value) ==
    IF key = Key_sdk_version
    THEN IF IsIntText(value)
         THEN [exc |-> "", header |-> [h EXCEPT !.sdk_version = PyNum(IntTextVal(value))]]
         ELSE [exc |-> "ValueError", header |-> h]
    ELSE IF key = Key_sdk_extensions
    THEN [exc |-> "", header |-> [h EXCEPT !.sdk_extensions = FindAllDict(ExtAt, value, 1, <<>>)]]
    ELSE IF key = Key_uptime
    THEN [exc |-> HdrUptime(h.uptime, value).exc,
          header |-> [h EXCEPT !.uptime = HdrUptime(h.uptime, value).uptime]]
    ELSE IF HdrBytesField(key) /= ""
    THEN [exc |-> "", header |-> [h EXCEPT ![HdrBytesField(key)] = PyBytes(value)]]
    ELSE [exc |-> "", header |-> h]

(***************************************************************************)
(* The actions of parse_dumpstate_header.                                  *)
(***************************************************************************)
hdrLocals == <<warnings>>

\* the search of the header and the statements up to the loop
HdrSearch ==
    /\ pc = "hdr_search"
    /\ IF ~HdrMatch(raw).found
       THEN /\ result' = "None" /\ pc' = "done"
            /\ UNCHANGED <<hdr_lines, dumpstate_header>>
       ELSE /\ dumpstate_header' =
                   [NewDumpstateHeader EXCEPT
                       !.timestamp = PyBytes(Strip(HdrMatch(raw).group1))]
            /\ hdr_lines' = Split(HdrMatch(raw).group2, "\n")
            /\ pc' = "hdr_loop"
            /\ UNCHANGED result
    /\ UNCHANGED <<hdr_i, hdr_key, hdr_value, raised, hdrLocals, nonHdrVars>>

\* 'while i < len(lines)' is false: return header
HdrReturn ==
    /\ pc = "hdr_loop"
    /\ ~(hdr_i < Len(hdr_lines))
    /\ result' = "DumpstateHeader"
    /\ pc' = "done"
    /\ UNCHANGED <<hdrVars, raised, hdrLocals, nonHdrVars>>

\* the outer dispatch on lines[i]: a line with ':' gives key and value and the cursor
\* moves on to the look-ahead; any other line is passed by 'i += 1' alone
HdrLine ==
    /\ pc = "hdr_loop"
    /\ hdr_i < Len(hdr_lines)
    /\ IF Contains(hdr_lines[hdr_i + 1], <<":">>)
       THEN /\ hdr_key' = HdrKeyOf(hdr_lines[hdr_i + 1])
            /\ hdr_value' = HdrValueOf(hdr_lines[hdr_i + 1])
            /\ pc' = "hdr_ahead"
       ELSE /\ pc' = "hdr_loop"
            /\ UNCHANGED <<hdr_key, hdr_value>>
    /\ hdr_i' = hdr_i + 1
    /\ UNCHANGED <<hdr_lines, dumpstate_header, result, raised, hdrLocals, nonHdrVars>>

\* the look-ahead goes on: 'while i < len(lines) and b':' not in lines[i]'
HdrAheadMore == hdr_i < Len(hdr_lines) /\ ~Contains(hdr_lines[hdr_i + 1], <<":">>)

\* one turn of the look-ahead
HdrAhead ==
    /\ pc = "hdr_ahead"
    /\ HdrAheadMore
    /\ hdr_value' = hdr_value \o <<"\n">> \o Strip(hdr_lines[hdr_i + 1])
    /\ hdr_i' = hdr_i + 1
    /\ UNCHANGED <<hdr_lines, hdr_key, dumpstate_header, pc, result, raised, hdrLocals,
                   nonHdrVars>>

\* the statements after the look-ahead: 'i -= 1', the field of the key, 'i += 1';
\* an exception of the field leaves the function before 'i += 1'
HdrAssign ==
    /\ pc = "hdr_ahead"
    /\ ~HdrAheadMore
    /\ dumpstate_header' = HdrField(dumpstate_header, hdr_key, hdr_value).header
    /\ raised' = HdrField(dumpstate_header, hdr_key, hdr_value).exc
    /\ hdr_i' = IF raised' = "" THEN hdr_i - 1 + 1 ELSE hdr_i - 1
    /\ pc' = IF raised' = "" THEN "hdr_loop" ELSE "done"
    /\ UNCHANGED <<hdr_lines, hdr_key, hdr_value, result, hdrLocals, nonHdrVars>>

HdrNext ==
    \/ HdrSearch
    \/ HdrLine
    \/ HdrAhead
    \/ HdrAssign
    \/ HdrReturn

(***************************************************************************)
(* The actions of parse_account_service.                                   *)
(***************************************************************************)
accLocals == <<warnings>>

AccSearch ==
    /\ pc = "acc_search"
    /\ IF AccountBody(raw)[1] = 0
       THEN result' = "None" /\ pc' = "done" /\ UNCHANGED content_lines
       ELSE /\ content_lines' = BodyLines(raw, AccountBody(raw))
            /\ pc' = "acc_parse"
            /\ UNCHANGED result
    /\ UNCHANGED <<line_no, accVars, raised, accLocals, nonAccVars>>

AccParseTo(st) ==
    /\ account_info' = st.account_info
    /\ current_user' = st.current_user
    /\ parsing_section' = st.parsing_section
    /\ current_visibility_account' = st.current_visibility_account
    /\ raised' = st.raised
    /\ IF st.raised /= "" THEN pc' = "done" /\ UNCHANGED line_no
       ELSE IF line_no < Len(content_lines) THEN line_no' = line_no + 1 /\ pc' = pc
       ELSE line_no' = 1 /\ pc' = "acc_return"

\* one turn of 'for line in account_content.strip().split(b'\n')'
AccParse ==
    /\ pc = "acc_parse"
    /\ AccParseTo(AccLine(AccState("", account_info, current_user, parsing_section,
                                   current_visibility_account),
                          content_lines[line_no]))
    /\ UNCHANGED <<content_lines, result, accLocals, nonAccVars>>

\* the statements after the loop
AccReturn ==
    /\ pc = "acc_return"
    /\ account_info' = IF current_user = PyNone THEN account_info
                       ELSE [account_info EXCEPT !.users = Append(@, current_user)]
    /\ result' = "AccountInfo"
    /\ pc' = "done"
    /\ UNCHANGED <<content_lines, line_no, current_user, parsing_section,
                   current_visibility_account, raised, accLocals, nonAccVars>>

AccNext ==
    \/ AccSearch
    \/ AccParse
    \/ AccReturn

(***************************************************************************)
(* The actions of parse_keyguard_service.                                  *)
(***************************************************************************)
kgLocals == <<warnings, raised>>

\* one turn of the loop that strips the line in place, in dumpstate_content.lines
KgCollectStripping ==
    /\ pc = "kg_collect"
    /\ report_lines' = [report_lines EXCEPT ![line_no] = Strip(@)]
    /\ current_section' = KgCollectLine(current_section, section_lines,
                                        Strip(report_lines[line_no]))[1]
    /\ section_lines' = KgCollectLine(current_section, section_lines,
                                      Strip(report_lines[line_no]))[2]
    /\ IF line_no < Len(report_lines) THEN line_no' = line_no + 1 /\ pc' = pc
       ELSE line_no' = 2 /\ pc' = "kg_header"
    /\ UNCHANGED <<kgVars, result, kgLocals, nonKgVars>>

\* one turn of 'for line in dumpstate_content.lines'
KgCollect ==
    /\ pc = "kg_collect"
    /\ current_section' = KgCollectLine(current_section, section_lines,
                                        report_lines[line_no])[1]
    /\ section_lines' = KgCollectLine(current_section, section_lines,
                                      report_lines[line_no])[2]
    /\ IF line_no < Len(report_lines) THEN line_no' = line_no + 1 /\ pc' = pc
       ELSE line_no' = 2 /\ pc' = "kg_header"
    /\ UNCHANGED <<report_lines, kgVars, result, kgLocals, nonKgVars>>

\* the statements between the loops
KgHeader ==
    /\ pc = "kg_header"
    /\ IF section_lines = <<>> \/ ~KgHeaderMatch(section_lines[1]).ok
       THEN result' = "None" /\ pc' = "done" /\ UNCHANGED service_info
       ELSE /\ service_info' =
                   [NewKeyguardServiceInfo EXCEPT
                       !.service_hash =
                           PyBytes(Strip(KgHeaderMatch(section_lines[1]).service_hash)),
                       !.pid = PyNum(KgHeaderMatch(section_lines[1]).pid),
                       !.user = PyNum(KgHeaderMatch(section_lines[1]).user)]
            /\ pc' = IF Len(section_lines) >= 2 THEN "kg_parse" ELSE "kg_return"
            /\ UNCHANGED result
    /\ UNCHANGED <<report_lines, line_no, current_section, section_lines, in_unlock_info,
                   current_user_settings, kgLocals, nonKgVars>>

KgParseTo(st) ==
    /\ service_info' = st.service_info
    /\ in_unlock_info' = st.in_unlock_info
    /\ current_user_settings' = st.current_user_settings
    /\ IF line_no < Len(section_lines) THEN line_no' = line_no + 1 /\ pc' = pc
       ELSE line_no' = 1 /\ pc' = "kg_return"

\* one turn of 'for line in section_lines[1:]'
KgParse ==
    /\ pc = "kg_parse"
    /\ KgParseTo(KgLine(KgState(service_info, in_unlock_info, current_user_settings),
                        section_lines[line_no]))
    /\ UNCHANGED <<report_lines, current_section, section_lines, result, kgLocals,
                   nonKgVars>>

KgReturn ==
    /\ pc = "kg_return"
    /\ result' = "KeyguardServiceInfo"
    /\ pc' = "done"
    /\ UNCHANGED <<report_lines, line_no, current_section, section_lines, kgVars,
                   kgLocals, nonKgVars>>

KgNext ==
    \/ KgCollect
    \/ KgHeader
    \/ KgParse
    \/ KgReturn

(***************************************************************************)
(* The actions of parse_lsmod and parse_mount_points.                      *)
(***************************************************************************)
seqLocals == <<warnings>>

LsmodSearch ==
    /\ pc = "lsmod_search"
    /\ IF BodyBetween(raw, LsmodAnchor, SectionEnd)[1] = 0
       THEN result' = "None" /\ pc' = "done" /\ UNCHANGED content_lines
       ELSE /\ content_lines' = BodyLines(raw, BodyBetween(raw, LsmodAnchor, SectionEnd))
            /\ pc' = "lsmod_parse"
            /\ UNCHANGED result
    /\ UNCHANGED <<line_no, seqVars, raised, seqLocals, nonSeqVars>>

LsmodParseTo(r) ==
    /\ raised' = r.exc
    /\ lsmod_modules' = IF r.exc /= "" THEN lsmod_modules ELSE Append(lsmod_modules, r.lm)
    /\ IF r.exc /= "" THEN pc' = "done" /\ UNCHANGED line_no
       ELSE IF line_no < Len(content_lines) THEN line_no' = line_no + 1 /\ pc' = pc
       ELSE line_no' = 1 /\ pc' = "lsmod_return"

\* one turn of 'for line in lsmod_content.strip().split(b'\n')'
LsmodParse ==
    /\ pc = "lsmod_parse"
    /\ IF /\ Strip(content_lines[line_no]) /= <<>>
          /\ ~StartsWith(content_lines[line_no], ModuleLit)
       THEN LsmodParseTo(LoadedModule_parse(content_lines[line_no]))
       ELSE /\ UNCHANGED <<raised, lsmod_modules>>
            /\ IF line_no < Len(content_lines) THEN line_no' = line_no + 1 /\ pc' = pc
               ELSE line_no' = 1 /\ pc' = "lsmod_return"
    /\ UNCHANGED <<content_lines, mount_points, result, seqLocals, nonSeqVars>>

LsmodReturn ==
    /\ pc = "lsmod_return"
    /\ result' = "list"
    /\ pc' = "done"
    /\ UNCHANGED <<content_lines, line_no, seqVars, raised, seqLocals, nonSeqVars>>

MountSearch ==
    /\ pc = "mount_search"
    /\ IF BodyBetween(raw, MountAnchor, SectionEnd)[1] = 0
       THEN result' = "None" /\ pc' = "done" /\ UNCHANGED content_lines
       ELSE /\ content_lines' = BodyLines(raw, BodyBetween(raw, MountAnchor, SectionEnd))
            /\ pc' = "mount_parse"
            /\ UNCHANGED result
    /\ UNCHANGED <<line_no, seqVars, raised, seqLocals, nonSeqVars>>

\* one turn of 'for line in mount_content.strip().split(b'\n')'
MountParse ==
    /\ pc = "mount_parse"
    /\ mount_points' = IF Strip(content_lines[line_no]) /= <<>>
                       THEN Append(mount_points, MountPoint_parse(content_lines[line_no]))
                       ELSE mount_points
    /\ IF line_no < Len(content_lines) THEN line_no' = line_no + 1 /\ pc' = pc
       ELSE line_no' = 1 /\ pc' = "mount_return"
    /\ UNCHANGED <<content_lines, lsmod_modules, raised, result, seqLocals, nonSeqVars>>

MountReturn ==
    /\ pc = "mount_return"
    /\ result' = "list"
    /\ pc' = "done"
    /\ UNCHANGED <<content_lines, line_no, seqVars, raised, seqLocals, nonSeqVars>>

SeqNext ==
    \/ LsmodSearch
    \/ LsmodParse
    \/ LsmodReturn
    \/ MountSearch
    \/ MountParse
    \/ MountReturn

(***************************************************************************)
(* The reports parse_process_info is run on: a CPU INFO section and a      *)
(* PROCESSES AND THREADS section, each present or not, each with up to     *)
(* MaxRows listing lines.                                                  *)
(***************************************************************************)
MaxRows == 2

TopSectionHead ==
    <<<<"-", "-", "-", "-", "-", " ", "C", "P", "U", " ", "I", "N", "F", "O", " ", "(",
        "t", "o", "p", ")", " ", "-", "-", "-", "-", "-", "-">>,
      <<"T", "h", "r", "e", "a", "d", "s", ":", " ", "2", " ", "t", "o", "t", "a", "l",
        ",", " ", "1", " ", "r", "u", "n", "n", "i", "n", "g">>,
      <<" ", " ", "M", "e", "m", ":", " ", "1", "0", "K", " ", "t", "o", "t", "a", "l",
        ",", " ", "5", "K", " ", "u", "s", "e", "d">>,
      <<" ", "S", "w", "a", "p", ":", " ", "1", "K", " ", "t", "o", "t", "a", "l">>,
      <<"8", "0", "0", "%", "c", "p", "u", " ", "5", "%", "u", "s", "e", "r", " ", "0",
        "%", "n", "i", "c", "e">>,
      <<" ", " ", "P", "I", "D", " ", " ", " ", "T", "I", "D", " ", "U", "S", "E", "R",
        " ", "P", "R", " ", "N", "I", " ", "%", "C", "P", "U", " ", "S", " ", "V", "I",
        "R", "T", " ", "R", "E", "S", " ", "P", "C", "Y", " ", "C", "M", "D", " ", "N",
        "A", "M", "E">>>>

TopRows ==
    {<<"1", " ", "1", " ", "r", "o", "o", "t", " ", "2", "0", " ", "0", " ", "1", ".",
       "5", " ", "S", " ", "1", "0", "M", " ", "2", "M", " ", "f", "g", " ", "i", "n",
       "i", "t", " ", "i", "n", "i", "t">>,
     <<"1", " ", "2", " ", "r", "o", "o", "t", " ", "2", "0", " ", "0", " ", "3", "%",
       " ", "S", " ", "1", "0", "M", " ", "2", "M", " ", "f", "g", " ", "i", "n", "i",
       "t", " ", "w", " ", "k">>,
     <<"9", " ", "x", " ", "s", "h", " ", "2", "0", " ", "0", " ", "0", ".", "0", " ",
       "S", " ", "1", "M", " ", "1", "M", " ", "b", "g", " ", "s", "h", " ", "s", "h">>,
     <<"7", " ", "7", " ", "s", "h">>}

TopSectionTail ==
    <<<<"-", "-", "-", "-", "-", "-", " ", "0", ".", "1", "s", " ", "w", "a", "s", " ",
        "t", "h", "e", " ", "d", "u", "r", "a", "t", "i", "o", "n", " ", "o", "f", " ",
        "'", "C", "P", "U", " ", "I", "N", "F", "O", "'", " ", "-", "-", "-", "-", "-",
        "-">>>>

PsSectionHead ==
    <<<<"-", "-", "-", "-", "-", "-", " ", "P", "R", "O", "C", "E", "S", "S", "E", "S",
        " ", "A", "N", "D", " ", "T", "H", "R", "E", "A", "D", "S", " ", "(", "p", "s",
        ")", " ", "-", "-", "-", "-", "-", "-">>,
      <<"L", "A", "B", "E", "L", " ", "U", "S", "E", "R", " ", "P", "I", "D", " ", "T",
        "I", "D", " ", "P", "P", "I", "D", " ", "V", "S", "Z", " ", "R", "S", "S", " ",
        "W", "C", "H", "A", "N", " ", "A", "D", "D", "R", " ", "S", " ", "P", "R", "I",
        " ", "N", "I", " ", "R", "T", "P", "R", "I", "O", " ", "S", "C", "H", " ", "P",
        "C", "Y", " ", "T", "I", "M", "E", " ", "C", "M", "D">>>>

PsRows ==
    {<<"l", " ", "r", "o", "o", "t", " ", "1", " ", "1", " ", "0", " ", "5", " ", "6",
       " ", "w", " ", "a", " ", "S", " ", "9", " ", "0", " ", "-", " ", "0", " ", "f",
       "g", " ", "0", ":", "0", "1", " ", "i", "n", "i", "t">>,
     <<"l", " ", "s", "h", " ", "2", " ", "2", " ", "1", " ", "5", " ", "6", " ", "w",
       " ", "a", " ", "S", " ", "9", " ", "0", " ", "-", " ", "0", " ", "b", "g", " ",
       "0", ":", "0", "0", " ", "s", "h", " ", "-", "c", " ", "x">>,
     <<"l", " ", "r", "o", "o", "t", " ", "1", " ", "3", " ", "0", " ", "5", " ", "6",
       " ", "w", " ", "a", " ", "R", " ", "9", " ", "0", " ", "-", " ", "0", " ", "f",
       "g", " ", "0", ":", "0", "2", " ", "i", "n", "i", "t">>,
     <<"l", " ", "r", "o", "o", "t", " ", "3", " ", "3", " ", "0", " ", "5", " ", "6",
       " ", "w", " ", "a", " ", "S", " ", "9", " ", "0", " ", "-", " ", "0">>}

PsSectionTail ==
    <<<<"-", "-", "-", "-", "-", "-", " ", "0", ".", "2", "s", " ", "w", "a", "s", " ",
        "t", "h", "e", " ", "d", "u", "r", "a", "t", "i", "o", "n", " ", "o", "f", " ",
        "'", "P", "R", "O", "C", "E", "S", "S", "E", "S", " ", "A", "N", "D", " ", "T",
        "H", "R", "E", "A", "D", "S", "'", " ", "-", "-", "-", "-", "-", "-">>>>

TopSections ==
    {<<>>} \cup {TopSectionHead \o rows \o TopSectionTail : rows \in SeqsOf(TopRows, 0, MaxRows)}

PsSections ==
    {<<>>} \cup {PsSectionHead \o rows \o PsSectionTail : rows \in SeqsOf(PsRows, 0, MaxRows)}

\* reports that hold none of the sections
NoSectionReports ==
    {<<>>, <<"h", "e", "l", "l", "o", "\n", "w", "o", "r", "l", "d">>}

OddProcReports ==
    {Lines(ls) : ls \in {
        \* the header as dumpstate writes it, with six dashes
        <<<<"-", "-", "-", "-", "-", "-", " ", "C", "P", "U", " ", "I", "N", "F", "O",
            " ", "(", "t", "o", "p", ")", " ", "-", "-", "-", "-", "-", "-">>,
          <<" ", " ", "P", "I", "D", " ", " ", " ", "T", "I", "D", " ", "U", "S", "E",
            "R">>,
          <<"1", " ", "1", " ", "r", "o", "o", "t", " ", "2", "0", " ", "0", " ", "1",
            ".", "5", " ", "S", " ", "1", "0", "M", " ", "2", "M", " ", "f", "g", " ",
            "i", "n", "i", "t", " ", "i", "n", "i", "t">>>>,
        \* a listing without its header line, the section not closed
        <<<<"-", "-", "-", "-", "-", " ", "C", "P", "U", " ", "I", "N", "F", "O">>,
          <<"1", " ", "1", " ", "r", "o", "o", "t", " ", "2", "0", " ", "0", " ", "1",
            ".", "5", " ", "S", " ", "1", "0", "M", " ", "2", "M", " ", "f", "g", " ",
            "i", "n", "i", "t", " ", "i", "n", "i", "t">>>>,
        \* a second header of the same section, a pid of 0
        <<<<"-", "-", "-", "-", "-", "-", " ", "P", "R", "O", "C", "E", "S", "S", "E",
            "S", " ", "A", "N", "D", " ", "T", "H", "R", "E", "A", "D", "S">>,
          <<"L", "A", "B", "E", "L">>,
          <<"l", " ", "r", "o", "o", "t", " ", "1", " ", "1", " ", "0", " ", "5", " ",
            "6", " ", "w", " ", "a", " ", "S", " ", "9", " ", "0", " ", "-", " ", "0",
            " ", "f", "g", " ", "0", ":", "0", "1", " ", "i", "n", "i", "t">>,
          <<"-", "-", "-", "-", "-", "-", " ", "P", "R", "O", "C", "E", "S", "S", "E",
            "S", " ", "A", "N", "D", " ", "T", "H", "R", "E", "A", "D", "S">>,
          <<"L", "A", "B", "E", "L">>,
          <<"l", " ", "r", "o", "o", "t", " ", "0", " ", "4", " ", "0", " ", "5", " ",
            "6", " ", "w", " ", "a", " ", "S", " ", "9", " ", "0", " ", "-", " ", "0",
            " ", "f", "g", " ", "0", ":", "0", "1", " ", "i", "d", "l", "e">>>>}}

ProcReports ==
    {Lines(<<ReportHead>> \o top \o ps) : top \in TopSections, ps \in PsSections}
    \cup OddProcReports
    \cup NoSectionReports

(***************************************************************************)
(* The reports parse_package_install_log is run on: up to MaxLogRecords    *)
(* records of the install log, each one complete or cut short in one way.  *)
(***************************************************************************)
MaxLogRecords == 2

LogInstallFull ==
    <<<<"2", "0", "2", "4", "-", "0", "1", "-", "0", "2", " ", "0", "3", ":", "0", "4",
        ":", "0", "5", ".", "6", "7", "8", ":", " ", "S", "T", "A", "R", "T", " ", "I",
        "N", "S", "T", "A", "L", "L", " ", "P", "A", "C", "K", "A", "G", "E", ":", " ",
        "o", "b", "s", "e", "r", "v", "e", "r", "{", "1", "}">>,
      <<" ", " ", "s", "t", "a", "g", "e", "d", "D", "i", "r", "{", "/", "s", "}">>,
      <<" ", " ", "p", "k", "g", "{", "p", "}">>,
      <<" ", " ", "v", "e", "r", "s", "i", "o", "n", "C", "o", "d", "e", "{", "5", "}">>,
      <<" ", " ", "R", "e", "q", "u", "e", "s", "t", " ", "f", "r", "o", "m", "{", "r",
        "}">>,
      <<"2", "0", "2", "4", "-", "0", "1", "-", "0", "2", " ", "0", "3", ":", "0", "4",
        ":", "0", "5", ".", "6", "7", "8", ":", " ", "r", "e", "s", "u", "l", "t", " ",
        "o", "f", " ", "i", "n", "s", "t", "a", "l", "l", ":", " ", "1", "{", "1", "}">>>>

LogInstallNoResult ==
    <<<<"2", "0", "2", "4", "-", "0", "1", "-", "0", "2", " ", "0", "3", ":", "0", "4",
        ":", "0", "5", ".", "6", "7", "8", ":", " ", "S", "T", "A", "R", "T", " ", "I",
        "N", "S", "T", "A", "L", "L", " ", "P", "A", "C", "K", "A", "G", "E", ":", " ",
        "o", "b", "s", "e", "r", "v", "e", "r", "{", "1", "}">>,
      <<" ", " ", "s", "t", "a", "g", "e", "d", "D", "i", "r", "{", "/", "s", "}">>,
      <<" ", " ", "p", "k", "g", "{", "p", "}">>,
      <<" ", " ", "v", "e", "r", "s", "i", "o", "n", "C", "o", "d", "e", "{", "5", "}">>,
      <<" ", " ", "R", "e", "q", "u", "e", "s", "t", " ", "f", "r", "o", "m", "{", "r",
        "}">>>>

LogInstallJunk ==
    <<<<"2", "0", "2", "4", "-", "0", "1", "-", "0", "2", " ", "0", "3", ":", "0", "4",
        ":", "0", "5", ".", "6", "7", "8", ":", " ", "S", "T", "A", "R", "T", " ", "I",
        "N", "S", "T", "A", "L", "L", " ", "P", "A", "C", "K", "A", "G", "E", ":", " ",
        "o", "b", "s", "e", "r", "v", "e", "r", "{", "1", "}">>,
      <<" ", " ", "s", "t", "a", "g", "e", "d", "D", "i", "r", "{", "/", "s", "}">>,
      <<" ", " ", "j", "u", "n", "k">>,
      <<" ", " ", "v", "e", "r", "s", "i", "o", "n", "C", "o", "d", "e", "{", "5", "}">>,
      <<" ", " ", "R", "e", "q", "u", "e", "s", "t", " ", "f", "r", "o", "m", "{", "r",
        "}">>,
      <<"2", "0", "2", "4", "-", "0", "1", "-", "0", "2", " ", "0", "3", ":", "0", "4",
        ":", "0", "5", ".", "6", "7", "8", ":", " ", "r", "e", "s", "u", "l", "t", " ",
        "o", "f", " ", "i", "n", "s", "t", "a", "l", "l", ":", " ", "1", "{", "1", "}">>>>

LogInstallNoPkg ==
    <<<<"2", "0", "2", "4", "-", "0", "1", "-", "0", "2", " ", "0", "3", ":", "0", "4",
        ":", "0", "5", ".", "6", "7", "8", ":", " ", "S", "T", "A", "R", "T", " ", "I",
        "N", "S", "T", "A", "L", "L", " ", "P", "A", "C", "K", "A", "G", "E", ":", " ",
        "o", "b", "s", "e", "r", "v", "e", "r", "{", "1", "}">>,
      <<" ", " ", "s", "t", "a", "g", "e", "d", "D", "i", "r", "{", "/", "s", "}">>,
      <<" ", " ", "o", "t", "h", "e", "r", "{", "o", "}">>,
      <<" ", " ", "v", "e", "r", "s", "i", "o", "n", "C", "o", "d", "e", "{", "5", "}">>,
      <<" ", " ", "R", "e", "q", "u", "e", "s", "t", " ", "f", "r", "o", "m", "{", "r",
        "}">>,
      <<"2", "0", "2", "4", "-", "0", "1", "-", "0", "2", " ", "0", "3", ":", "0", "4",
        ":", "0", "5", ".", "6", "7", "8", ":", " ", "r", "e", "s", "u", "l", "t", " ",
        "o", "f", " ", "i", "n", "s", "t", "a", "l", "l", ":", " ", "1", "{", "1", "}">>>>

LogInstallBadCode ==
    <<<<"2", "0", "2", "4", "-", "0", "1", "-", "0", "2", " ", "0", "3", ":", "0", "4",
        ":", "0", "5", ".", "6", "7", "8", ":", " ", "S", "T", "A", "R", "T", " ", "I",
        "N", "S", "T", "A", "L", "L", " ", "P", "A", "C", "K", "A", "G", "E", ":", " ",
        "o", "b", "s", "e", "r", "v", "e", "r", "{", "1", "}">>,
      <<" ", " ", "s", "t", "a", "g", "e", "d", "D", "i", "r", "{", "/", "s", "}">>,
      <<" ", " ", "p", "k", "g", "{", "p", "}">>,
      <<" ", " ", "v", "e", "r", "s", "i", "o", "n", "C", "o", "d", "e", "{", "x", "}">>,
      <<" ", " ", "R", "e", "q", "u", "e", "s", "t", " ", "f", "r", "o", "m", "{", "r",
        "}">>,
      <<"2", "0", "2", "4", "-", "0", "1", "-", "0", "2", " ", "0", "3", ":", "0", "4",
        ":", "0", "5", ".", "6", "7", "8", ":", " ", "r", "e", "s", "u", "l", "t", " ",
        "o", "f", " ", "i", "n", "s", "t", "a", "l", "l", ":", " ", "1", "{", "1", "}">>>>

LogInstallShort ==
    <<<<"2", "0", "2", "4", "-", "0", "1", "-", "0", "2", " ", "0", "3", ":", "0", "4",
        ":", "0", "5", ".", "6", "7", "8", ":", " ", "S", "T", "A", "R", "T", " ", "I",
        "N", "S", "T", "A", "L", "L", " ", "P", "A", "C", "K", "A", "G", "E", ":", " ",
        "o", "b", "s", "e", "r", "v", "e", "r", "{", "4", "}">>,
      <<" ", " ", "s", "t", "a", "g", "e", "d", "D", "i", "r", "{", "/", "s", "}">>,
      <<" ", " ", "p", "k", "g", "{", "q", "}">>,
      <<"2", "0", "2", "4", "-", "0", "1", "-", "0", "2", " ", "0", "3", ":", "0", "4",
        ":", "0", "5", ".", "6", "7", "8", ":", " ", "r", "e", "s", "u", "l", "t", " ",
        "o", "f", " ", "i", "n", "s", "t", "a", "l", "l", ":", " ", "0", "{", "4", "}">>>>

LogInstallNoTs ==
    <<<<"S", "T", "A", "R", "T", " ", "I", "N", "S", "T", "A", "L", "L", " ", "P", "A",
        "C", "K", "A", "G", "E", ":", " ", "o", "b", "s", "e", "r", "v", "e", "r", "{",
        "2", "}">>,
      <<" ", " ", "p", "k", "g", "{", "p", "}">>>>

LogInstallBadDate ==
    <<<<"2", "0", "2", "4", "-", "1", "3", "-", "0", "2", " ", "0", "3", ":", "0", "4",
        ":", "0", "5", ".", "6", "7", "8", ":", " ", "S", "T", "A", "R", "T", " ", "I",
        "N", "S", "T", "A", "L", "L", " ", "P", "A", "C", "K", "A", "G", "E", ":", " ",
        "o", "b", "s", "e", "r", "v", "e", "r", "{", "5", "}">>>>

LogDeleteFull ==
    <<<<"2", "0", "2", "4", "-", "0", "1", "-", "0", "2", " ", "0", "3", ":", "0", "4",
        ":", "0", "5", ".", "6", "7", "8", ":", " ", "S", "T", "A", "R", "T", " ", "D",
        "E", "L", "E", "T", "E", " ", "P", "A", "C", "K", "A", "G", "E", ":", " ", "o",
        "b", "s", "e", "r", "v", "e", "r", "{", "3", "}">>,
      <<" ", " ", "p", "k", "g", "{", "p", "}", ",", " ", "u", "s", "e", "r", "{", "0",
        "}", ",", " ", "c", "a", "l", "l", "e", "r", "{", "c", "}">>,
      <<"2", "0", "2", "4", "-", "0", "1", "-", "0", "2", " ", "0", "3", ":", "0", "4",
        ":", "0", "5", ".", "6", "7", "8", ":", " ", "r", "e", "s", "u", "l", "t", " ",
        "o", "f", " ", "d", "e", "l", "e", "t", "e", ":", " ", "-", "3", "{", "3", "}">>>>

LogDeleteNoResult ==
    <<<<"2", "0", "2", "4", "-", "0", "1", "-", "0", "2", " ", "0", "3", ":", "0", "4",
        ":", "0", "5", ".", "6", "7", "8", ":", " ", "S", "T", "A", "R", "T", " ", "D",
        "E", "L", "E", "T", "E", " ", "P", "A", "C", "K", "A", "G", "E", ":", " ", "o",
        "b", "s", "e", "r", "v", "e", "r", "{", "1", "}">>,
      <<" ", " ", "p", "k", "g", "{", "p", "}", ",", " ", "u", "s", "e", "r", "{", "0",
        "}", ",", " ", "c", "a", "l", "l", "e", "r", "{", "c", "}">>>>

LogOther ==
    <<<<"x">>,
      <<"2", "0", "2", "4", "-", "0", "1", "-", "0", "2", " ", "0", "3", ":", "0", "4",
        ":", "0", "5", ".", "6", "7", "8", ":", " ", "r", "e", "s", "u", "l", "t", " ",
        "o", "f", " ", "i", "n", "s", "t", "a", "l", "l", ":", " ", "1", "{", "9", "}">>>>

LogRecords ==
    {LogInstallFull, LogInstallNoResult, LogInstallJunk, LogInstallNoPkg, LogInstallBadCode,
     LogInstallShort, LogInstallNoTs, LogInstallBadDate, LogDeleteFull,
     LogDeleteNoResult, LogOther}

RECURSIVE Concat(_)
Concat(seqs) == IF seqs = <<>> THEN <<>> ELSE Head(seqs) \o Concat(Tail(seqs))

LogFirstHead ==
    <<"-", "-", "-", "-", "-", "-", " ", "S", "Y", "S", "T", "E", "M", " ", "L", "O",
          "G", " ", "(", "l", "o", "g", "c", "a", "t", " ", "-", "b", " ", "s", "y", "s",
          "t", "e", "m", ")", " ", "-", "-", "-", "-", "-", "-">>

LogFirstEnd ==
    <<"-", "-", "-", "-", "-", "-", " ", "0", ".", "1", "s", " ", "w", "a", "s", " ",
          "t", "h", "e", " ", "d", "u", "r", "a", "t", "i", "o", "n", " ", "o", "f", " ",
          "'", "S", "Y", "S", "T", "E", "M", " ", "L", "O", "G", "'", " ", "-", "-", "-",
          "-", "-", "-">>

LogSecondHead ==
    <<"-", "-", "-", "-", "-", "-", " ", "E", "V", "E", "N", "T", " ", "L", "O", "G",
          " ", "(", "l", "o", "g", "c", "a", "t", " ", "-", "b", " ", "e", "v", "e", "n",
          "t", "s", ")", " ", "-", "-", "-", "-", "-", "-">>

\* two sections of the report that both hold records of the log, a record cut short by
\* the end of its section
OddLogReports ==
    {Lines(<<LogFirstHead>> \o LogDeleteFull \o <<LogFirstEnd, LogSecondHead>> \o second) :
        second \in {LogInstallFull, LogDeleteNoResult, LogOther}}
    \cup {Lines(<<LogFirstHead, LogDeleteFull[1], LogSecondHead, <<"x">>>>)}

LogReports ==
    {Lines(<<ReportHead>> \o Concat(records)) :
        records \in SeqsOf(LogRecords, 1, MaxLogRecords)}
    \cup OddLogReports
    \cup NoSectionReports

(***************************************************************************)
(* The reports parse_package_info is run on: the section anchor, the lines *)
(* that open a context (a section, a Package, a permission subsection),    *)
(* then one line of any kind or MaxPkgLines lines of the kinds that change *)
(* the context, then the delimiter of the next section.                    *)
(***************************************************************************)
MaxPkgLines == 2

PkgCtxNone == <<>>

PkgCtxPackage ==
    <<<<"P", "a", "c", "k", "a", "g", "e", "s", ":">>,
      <<" ", " ", "P", "a", "c", "k", "a", "g", "e", " ", "[", "c", "o", "m", ".", "x",
        "]", " ", "(", "a", "b", "c", ")", ":">>>>

PkgCtxDeclared ==
    <<<<"P", "a", "c", "k", "a", "g", "e", "s", ":">>,
      <<" ", " ", "P", "a", "c", "k", "a", "g", "e", " ", "[", "c", "o", "m", ".", "x",
        "]", " ", "(", "a", "b", "c", ")", ":">>,
      <<" ", " ", " ", " ", "d", "e", "c", "l", "a", "r", "e", "d", " ", "p", "e", "r",
        "m", "i", "s", "s", "i", "o", "n", "s", ":">>>>

PkgCtxRuntime ==
    <<<<"P", "a", "c", "k", "a", "g", "e", "s", ":">>,
      <<" ", " ", "P", "a", "c", "k", "a", "g", "e", " ", "[", "c", "o", "m", ".", "x",
        "]", " ", "(", "a", "b", "c", ")", ":">>,
      <<" ", " ", " ", " ", "r", "u", "n", "t", "i", "m", "e", " ", "p", "e", "r", "m",
        "i", "s", "s", "i", "o", "n", "s", ":">>>>

PkgCtxInstall ==
    <<<<"P", "a", "c", "k", "a", "g", "e", "s", ":">>,
      <<" ", " ", "P", "a", "c", "k", "a", "g", "e", " ", "[", "c", "o", "m", ".", "x",
        "]", " ", "(", "a", "b", "c", ")", ":">>,
      <<" ", " ", " ", " ", "i", "n", "s", "t", "a", "l", "l", " ", "p", "e", "r", "m",
        "i", "s", "s", "i", "o", "n", "s", ":">>>>

PkgCtxPackages ==
    <<<<"P", "a", "c", "k", "a", "g", "e", "s", ":">>>>

PkgCtxVerifiers ==
    <<<<"V", "e", "r", "i", "f", "i", "e", "r", "s", ":">>>>

PkgCtxDomain ==
    <<<<"D", "o", "m", "a", "i", "n", " ", "V", "e", "r", "i", "f", "i", "e", "r", ":">>>>

PkgCtxDatabase ==
    <<<<"D", "a", "t", "a", "b", "a", "s", "e", " ", "v", "e", "r", "s", "i", "o", "n",
        "s", ":">>>>

PkgCtxKnown ==
    <<<<"K", "n", "o", "w", "n", " ", "P", "a", "c", "k", "a", "g", "e", "s", ":">>>>

PkgCtxLibraries ==
    <<<<"L", "i", "b", "r", "a", "r", "i", "e", "s", ":">>>>

PkgCtxFeatures ==
    <<<<"F", "e", "a", "t", "u", "r", "e", "s", ":">>>>

PkgContexts ==
    {PkgCtxNone, PkgCtxPackage, PkgCtxDeclared, PkgCtxRuntime,
     PkgCtxInstall, PkgCtxPackages, PkgCtxVerifiers, PkgCtxDomain,
     PkgCtxDatabase, PkgCtxKnown, PkgCtxLibraries, PkgCtxFeatures}

\* the header lines of the named subsections
PkgHeaderLines ==
    {PkgCtxPackages[1], PkgCtxVerifiers[1], PkgCtxDomain[1], PkgCtxDatabase[1],
     PkgCtxKnown[1], PkgCtxLibraries[1], PkgCtxFeatures[1]}

PkgTopLines ==
    {<<"S", "e", "r", "v", "i", "c", "e", " ", "h", "o", "s", "t", " ", "p", "r", "o",
       "c", "e", "s", "s", " ", "P", "I", "D", ":", " ", "4", "2">>,
     <<"S", "e", "r", "v", "i", "c", "e", " ", "h", "o", "s", "t", " ", "p", "r", "o",
       "c", "e", "s", "s", " ", "P", "I", "D", ":", " ", "a", "b", "c">>,
     <<"T", "h", "r", "e", "a", "d", "s", " ", "i", "n", " ", "u", "s", "e", ":", " ",
       "3", "/", "8">>,
     <<"C", "l", "i", "e", "n", "t", " ", "P", "I", "D", "s", ":", " ", "1", ",", " ",
       "2">>,
     <<"C", "l", "i", "e", "n", "t", " ", "P", "I", "D", "s", ":">>,
     <<"O", "t", "h", "e", "r", " ", "H", "e", "a", "d", "e", "r", ":", " ", "x">>}

PkgContentLines ==
    {<<"s", "d", "k", ":", " ", "3", "3">>,
     <<"R", "e", "q", "u", "i", "r", "e", "d", ":", " ", "c", "o", "m", ".", "v">>,
     <<"r", "e", "q", "u", "i", "r", "e", "d", ":", " ", "c", "o", "m", ".", "v">>,
     <<"U", "s", "i", "n", "g", ":", " ", "c", "o", "m", ".", "d">>,
     <<"u", "s", "i", "n", "g", " ", "c", "o", "m", ".", "d">>,
     <<"l", "i", "b", ".", "a", " ", "-", ">", " ", "/", "s", "y", "s", "t", "e", "m",
       "/", "a", ".", "j", "a", "r">>,
     <<"f", "e", "a", "t", ".", "x">>}

PkgFieldLines ==
    {<<" ", " ", "P", "a", "c", "k", "a", "g", "e", " ", "[", "c", "o", "m", ".", "y",
       "]">>,
     <<" ", " ", "P", "a", "c", "k", "a", "g", "e", " ", "[">>,
     <<" ", " ", " ", " ", "a", "p", "p", "I", "d", "=", "1", "0", "0", "0", "1">>,
     <<" ", " ", " ", " ", "v", "e", "r", "s", "i", "o", "n", "C", "o", "d", "e", "=",
       "5", " ", "m", "i", "n", "S", "d", "k", "=", "1">>,
     <<" ", " ", " ", " ", "v", "e", "r", "s", "i", "o", "n", "N", "a", "m", "e", "=",
       "1", ".", "0", " ", "x">>,
     <<" ", " ", " ", " ", "d", "a", "t", "a", "D", "i", "r", "=", "/", "d", "a", "t",
       "a", "/", "x">>,
     <<" ", " ", " ", " ", "f", "l", "a", "g", "s", "=", "[", " ", "S", "Y", "S", "T",
       "E", "M", " ", "H", "A", "S", "_", "C", "O", "D", "E", " ", "]">>,
     <<" ", " ", " ", " ", "p", "r", "i", "v", "a", "t", "e", "F", "l", "a", "g", "s",
       "=", "[", " ", "P", "R", "I", "V", "I", "L", "E", "G", "E", "D", " ", "]">>,
     <<" ", " ", " ", " ", "U", "s", "e", "r", " ", "0", ":", " ", "c", "e", "D", "a",
       "t", "a", "I", "n", "o", "d", "e", "=", "1", " ", "i", "n", "s", "t", "a", "l",
       "l", "e", "d", "=", "t", "r", "u", "e", " ", "f", "i", "r", "s", "t", "I", "n",
       "s", "t", "a", "l", "l", "T", "i", "m", "e", "=", "2", "0", "2", "4", "-", "0",
       "1", "-", "0", "2", " ", "0", "3", ":", "0", "4", ":", "0", "5">>,
     <<" ", " ", " ", " ", "o", "r", "i", "g", "i", "n", "a", "t", "i", "n", "g", "P",
       "a", "c", "k", "a", "g", "e", "N", "a", "m", "e", "=", "c", "o", "m", ".", "o">>,
     <<" ", " ", " ", " ", "o", "r", "i", "g", "i", "n", "a", "t", "i", "n", "g", "P",
       "a", "c", "k", "a", "g", "e", "N", "a", "m", "e">>,
     <<" ", " ", " ", " ", "i", "n", "i", "t", "i", "a", "t", "i", "n", "g", "P", "a",
       "c", "k", "a", "g", "e", "N", "a", "m", "e", "=", "c", "o", "m", ".", "i">>,
     <<" ", " ", " ", " ", "i", "n", "s", "t", "a", "l", "l", "e", "r", "P", "a", "c",
       "k", "a", "g", "e", "U", "i", "d", "=", "1", "0">>,
     <<" ", " ", " ", " ", "i", "n", "s", "t", "a", "l", "l", "e", "r", "P", "a", "c",
       "k", "a", "g", "e", "U", "i", "d", "=", "x">>,
     <<" ", " ", " ", " ", "t", "i", "m", "e", "S", "t", "a", "m", "p", "=", "2", "0",
       "2", "4", "-", "0", "1", "-", "0", "2", " ", "0", "3", ":", "0", "4", ":", "0",
       "5">>,
     <<" ", " ", " ", " ", "t", "i", "m", "e", "S", "t", "a", "m", "p", "=", "2", "0",
       "2", "4", "-", "1", "3", "-", "0", "2", " ", "0", "3", ":", "0", "4", ":", "0",
       "5">>,
     <<" ", " ", " ", " ", "l", "a", "s", "t", "U", "p", "d", "a", "t", "e", "T", "i",
       "m", "e", "=", "2", "0", "2", "4", "-", "1", "-", "2", " ", "3", ":", "0", "4",
       ":", "0", "5">>}

PkgPermissionLines ==
    {<<" ", " ", " ", " ", " ", " ", "a", "n", "d", "r", "o", "i", "d", ".", "p", "e",
       "r", "m", "i", "s", "s", "i", "o", "n", ".", "A", ":", " ", "g", "r", "a", "n",
       "t", "e", "d", "=", "t", "r", "u", "e", ",", " ", "f", "l", "a", "g", "s", "=",
       "[", " ", "U", "S", "E", "R", "_", "S", "E", "T", "|", "R", "E", "V", "O", "K",
       "E", "D", " ", "]">>,
     <<" ", " ", " ", " ", " ", " ", "a", "n", "d", "r", "o", "i", "d", ".", "p", "e",
       "r", "m", "i", "s", "s", "i", "o", "n", ".", "B", ":", " ", "g", "r", "a", "n",
       "t", "e", "d", "=", "f", "a", "l", "s", "e">>,
     <<" ", " ", " ", " ", " ", " ", "f", "o", "o", ".", "b", "a", "r", ":", " ", "p",
       "r", "o", "t", "=", "s", "i", "g", "n", "a", "t", "u", "r", "e", "|", "p", "r",
       "i", "v", "i", "l", "e", "g", "e", "d">>,
     <<" ", " ", " ", " ", " ", " ", "f", "o", "o", ".", "b", "a", "r", ":", " ", "x">>,
     <<" ", " ", " ", " ", " ", " ", "p", "l", "a", "i", "n">>,
     <<" ", " ", " ", " ", "s", "h", "a", "l", "l", "o", "w", ":", " ", "g", "r", "a",
       "n", "t", "e", "d", "=", "t", "r", "u", "e">>}

PkgPairLines ==
    {<<" ", " ", " ", " ", " ", " ", "a", "n", "d", "r", "o", "i", "d", ".", "p", "e",
       "r", "m", "i", "s", "s", "i", "o", "n", ".", "B", ":", " ", "g", "r", "a", "n",
       "t", "e", "d", "=", "f", "a", "l", "s", "e">>,
     <<" ", " ", " ", " ", " ", " ", "f", "o", "o", ".", "b", "a", "r", ":", " ", "p",
       "r", "o", "t", "=", "s", "i", "g", "n", "a", "t", "u", "r", "e", "|", "p", "r",
       "i", "v", "i", "l", "e", "g", "e", "d">>,
     <<" ", " ", " ", " ", "a", "p", "p", "I", "d", "=", "1", "0", "0", "0", "1">>,
     <<" ", " ", " ", " ", "i", "n", "s", "t", "a", "l", "l", " ", "p", "e", "r", "m",
       "i", "s", "s", "i", "o", "n", "s", ":">>,
     <<" ", " ", "P", "a", "c", "k", "a", "g", "e", " ", "[", "c", "o", "m", ".", "y",
       "]">>,
     <<"F", "e", "a", "t", "u", "r", "e", "s", ":">>,
     <<" ", " ", " ", " ", " ", " ", "f", "o", "o", ".", "b", "a", "r", ":", " ", "x">>}

PkgSectionEnd ==
    <<<<"-", "-", "-", "-", "-", "-", " ", "0", ".", "1", "s", " ", "w", "a", "s", " ",
        "t", "h", "e", " ", "d", "u", "r", "a", "t", "i", "o", "n", " ", "o", "f", " ",
        "'", "D", "U", "M", "P", "S", "Y", "S", "'", " ", "-", "-", "-", "-", "-", "-">>,
      <<"a", "f", "t", "e", "r">>>>

PkgReport(ctx, lines) ==
    Lines(<<ReportHead, PackageAnchor>> \o ctx \o lines \o PkgSectionEnd)

OddPkgReports ==
    {Lines(ls) : ls \in {
        <<<<"D", "U", "M", "P", " ", "O", "F", " ", "S", "E", "R", "V", "I", "C", "E",
            " ", "p", "a", "c", "k", "a", "g", "e", ":">>>>,
        <<<<"D", "U", "M", "P", " ", "O", "F", " ", "S", "E", "R", "V", "I", "C", "E",
            " ", "p", "a", "c", "k", "a", "g", "e", ":">>,
          <<"-", "-", "-", "-", "-", "-", " ", "0", ".", "1", "s", " ", "w", "a", "s",
            " ", "t", "h", "e", " ", "d", "u", "r", "a", "t", "i", "o", "n", " ", "o",
            "f", " ", "'", "D", "U", "M", "P", "S", "Y", "S", "'", " ", "-", "-", "-",
            "-", "-", "-">>,
          <<"P", "a", "c", "k", "a", "g", "e", "s", ":">>>>,
        <<<<"D", "U", "M", "P", " ", "O", "F", " ", "S", "E", "R", "V", "I", "C", "E",
            " ", "p", "a", "c", "k", "a", "g", "e", ":">>,
          <<"D", "U", "M", "P", " ", "O", "F", " ", "S", "E", "R", "V", "I", "C", "E",
            " ", "o", "t", "h", "e", "r", ":">>,
          <<"P", "a", "c", "k", "a", "g", "e", "s", ":">>>>,
        <<<<"P", "a", "c", "k", "a", "g", "e", "s", ":">>,
          <<" ", " ", "P", "a", "c", "k", "a", "g", "e", " ", "[", "c", "o", "m", ".",
            "x", "]">>,
          <<"D", "U", "M", "P", " ", "O", "F", " ", "S", "E", "R", "V", "I", "C", "E",
            " ", "p", "a", "c", "k", "a", "g", "e", ":">>,
          <<"F", "e", "a", "t", "u", "r", "e", "s", ":">>,
          <<"f", "1">>,
          <<"D", "U", "M", "P", " ", "O", "F", " ", "S", "E", "R", "V", "I", "C", "E",
            " ", "p", "a", "c", "k", "a", "g", "e", ":">>,
          <<"f", "2">>,
          <<"D", "U", "M", "P", " ", "O", "F", " ", "S", "E", "R", "V", "I", "C", "E",
            " ", "z", ":">>,
          <<"D", "U", "M", "P", " ", "O", "F", " ", "S", "E", "R", "V", "I", "C", "E",
            " ", "p", "a", "c", "k", "a", "g", "e", ":">>,
          <<"f", "3">>>>,
        <<<<"D", "U", "M", "P", " ", "O", "F", " ", "S", "E", "R", "V", "I", "C", "E",
            " ", "p", "a", "c", "k", "a", "g", "e", ":">>,
          <<>>,
          <<" ", " ", " ">>,
          <<"L", "i", "b", "r", "a", "r", "i", "e", "s", ":">>>>,
        <<<<"D", "U", "M", "P", " ", "O", "F", " ", "S", "E", "R", "V", "I", "C", "E", " ",
          "p", "a", "c", "k", "a", "g", "e", ":">>,
          <<"P", "a", "c", "k", "a", "g", "e", "s", ":">>,
          <<" ", " ", "P", "a", "c", "k", "a", "g", "e", " ", "[", "c", "o", "m", ".", "x",
          "]">>,
          <<" ", " ", " ", " ", " ", " ", "i", "n", "s", "t", "a", "l", "l", " ", "p", "e",
          "r", "m", "i", "s", "s", "i", "o", "n", "s", ":">>,
          <<" ", " ", " ", " ", " ", " ", " ", " ", "f", "o", "o", ".", "b", "a", "r", ":",
          " ", "g", "r", "a", "n", "t", "e", "d", "=", "t", "r", "u", "e">>,
          <<" ", " ", " ", " ", " ", " ", "a", "p", "p", "I", "d", "=", "1", "0", "0", "0",
          "1">>>>,
        <<<<"D", "U", "M", "P", " ", "O", "F", " ", "S", "E", "R", "V", "I", "C", "E", " ",
          "p", "a", "c", "k", "a", "g", "e", ":">>,
          <<"P", "a", "c", "k", "a", "g", "e", "s", ":">>,
          <<" ", " ", "P", "a", "c", "k", "a", "g", "e", " ", "[", "c", "o", "m", ".", "x",
          "]">>,
          <<" ", " ", "r", "u", "n", "t", "i", "m", "e", " ", "p", "e", "r", "m", "i", "s",
          "s", "i", "o", "n", "s", ":">>,
          <<" ", " ", " ", " ", "f", "o", "o", ".", "b", "a", "r", ":", " ", "g", "r", "a",
          "n", "t", "e", "d", "=", "t", "r", "u", "e">>,
          <<" ", " ", "a", "p", "p", "I", "d", "=", "1", "0", "0", "0", "1">>>>}}

PkgReports ==
    {PkgReport(ctx, lines) :
        ctx \in PkgContexts,
        lines \in SeqsOf(PkgTopLines \cup PkgHeaderLines \cup PkgContentLines
                             \cup PkgFieldLines \cup PkgPermissionLines, 0, 1)}
    \cup {PkgReport(ctx, lines) :
            ctx \in {PkgCtxPackage, PkgCtxDeclared, PkgCtxRuntime, PkgCtxInstall},
            lines \in SeqsOf(PkgPairLines, MaxPkgLines, MaxPkgLines)}
    \cup OddPkgReports
    \cup NoSectionReports

(***************************************************************************)
(* The reports parse_anr_traces is run on: the header of the section, the  *)
(* lines of the trace header and of the process, threads (a header line,   *)
(* well-formed or not, and up to MaxAnrBody lines of its body), the end    *)
(* line.                                                                   *)
(***************************************************************************)
MaxAnrBody == 3

AnrHeadLine ==
    <<"-", "-", "-", "-", "-", "-", " ", "V", "M", " ", "T", "R", "A", "C", "E", "S", " ",
      "A", "T", " ", "L", "A", "S", "T", " ", "A", "N", "R", " ", "(", "/", "d", "a", "t",
      "a", "/", "a", "n", "r", "/", "a", ":", " ", "2", "0", "2", "4", "-", "0", "1", "-",
      "0", "2", " ", "0", "3", ":", "0", "4", ":", "0", "5", ")", " ", "-", "-", "-", "-",
      "-", "-">>

AnrEndLine ==
    <<"-", "-", "-", "-", "-", " ", "e", "n", "d", " ", "1", "2", " ", "-", "-", "-", "-",
      "-">>

AnrTops ==
    {<<>>,
     <<<<"S", "u", "b", "j", "e", "c", "t", ":", " ", "I", "n", "p", "u", "t", " ", "t",
          "i", "m", "e", "d", " ", "o", "u", "t">>>>,
     <<<<>>,
       <<"-", "-", "-", "-", "-", " ", "p", "i", "d", " ", "1", "2", " ", "a", "t", " ",
          "2", "0", "2", "4", "-", "0", "1", "-", "0", "2", " ", "0", "3", ":", "0", "4",
          ":", "0", "5", " ", "-", "-", "-", "-", "-">>,
       <<"C", "m", "d", " ", "l", "i", "n", "e", ":", " ", "c", "o", "m", ".", "x">>>>,
     <<<<"B", "u", "i", "l", "d", " ", "f", "i", "n", "g", "e", "r", "p", "r", "i", "n",
          "t", ":", " ", "'", "g", "/", "x", ":", "1", "3", "'">>,
       <<"A", "B", "I", ":", " ", "'", "a", "r", "m", "6", "4", "'">>>>,
     <<<<"O", "t", "h", "e", "r", " ", "T", "h", "i", "n", "g", ":", " ", "v">>,
       <<"-", "-", "-", "-", "-", " ", "p", "i", "d", " ", "x", " ", "-", "-", "-", "-",
          "-">>>>}

AnrThreadHeaders ==
    {<<"\"", "m", "a", "i", "n", "\"", " ", "p", "r", "i", "o", "=", "5", " ", "t", "i",
        "d", "=", "1", " ", "R", "u", "n", "n", "a", "b", "l", "e">>,
     <<"\"", "w", " ", "k", "\"", " ", "d", "a", "e", "m", "o", "n", " ", "p", "r", "i",
        "o", "=", "1", "0", " ", "t", "i", "d", "=", "2", " ", "W", "a", "i", "t", "i",
        "n", "g">>,
     <<"\"", "m", "a", "i", "n">>}

AnrBodyLines ==
    {<<" ", " ", "|", " ", "g", "r", "o", "u", "p", "=", "\"", "m", "a", "i", "n", "\"",
        " ", "s", "C", "o", "u", "n", "t", "=", "1", " ", "s", "e", "l", "f", "=", "0",
        "x", "7", "f">>,
     <<" ", " ", "a", "t", " ", "a", ".", "B", ".", "c", "(", "B", ".", "j", "a", "v",
        "a", ":", "1", "0", ")">>,
     <<" ", " ", "n", "a", "t", "i", "v", "e", ":", " ", "#", "0", "0", " ", "p", "c",
        " ", "0", "0", "a", "1", " ", " ", "/", "s", "y", "s", "t", "e", "m", "/", "l",
        "i", "b", "6", "4", "/", "l", "i", "b", "c", ".", "s", "o", " ", "(", "r", "e",
        "a", "d", "+", "4", ")">>,
     <<" ", " ", "n", "a", "t", "i", "v", "e", ":", " ", "#", "0", "1", " ", "p", "c",
        " ", "0", "b", " ", " ", "/", "l", ".", "s", "o", " ", "(", "?", "?", "?", ")">>,
     <<" ", " ", "h", "e", "l", "d", " ", "m", "u", "t", "e", "x", "e", "s", "=", " ",
        "\"", "m", "\"">>}

AnrFewLines ==
    {<<" ", " ", "a", "t", " ", "a", ".", "B", ".", "d", "(", "N", "a", "t", "i", "v",
        "e", " ", "m", "e", "t", "h", "o", "d", ")">>,
     <<" ", " ", "n", "a", "t", "i", "v", "e", ":", " ", "(", "b", "a", "c", "k", "t",
        "r", "a", "c", "e", ")">>}

\* a section without its end line, an empty one, a header without its file, awkward frames
OddAnrReports ==
    {<<"-", "-", "-", "-", "-", "-", " ", "V", "M", " ", "T", "R", "A", "C", "E", "S",
        " ", "A", "T", " ", "L", "A", "S", "T", " ", "A", "N", "R", " ", "(", "/", "d",
        "a", "t", "a", "/", "a", "n", "r", "/", "a", ":", " ", "2", "0", "2", "4", "-",
        "0", "1", "-", "0", "2", " ", "0", "3", ":", "0", "4", ":", "0", "5", ")", " ",
        "-", "-", "-", "-", "-", "-", "\n", "\"", "m", "a", "i", "n", "\"", " ", "p", "r",
        "i", "o", "=", "5", " ", "t", "i", "d", "=", "1", " ", "R", "u", "n", "n", "a",
        "b", "l", "e", "\n", " ", " ", "a", "t", " ", "a", ".", "B", ".", "c", "(", "B",
        ".", "j", "a", "v", "a", ":", "1", "0", ")">>,
     <<"-", "-", "-", "-", "-", "-", " ", "V", "M", " ", "T", "R", "A", "C", "E", "S",
        " ", "A", "T", " ", "L", "A", "S", "T", " ", "A", "N", "R", " ", "(", "/", "d",
        "a", "t", "a", "/", "a", "n", "r", "/", "a", ":", " ", "2", "0", "2", "4", "-",
        "0", "1", "-", "0", "2", " ", "0", "3", ":", "0", "4", ":", "0", "5", ")", " ",
        "-", "-", "-", "-", "-", "-", "\n", "-", "-", "-", "-", "-", " ", "e", "n", "d",
        " ", "1", "2", " ", "-", "-", "-", "-", "-">>,
     <<"-", "-", "-", "-", "-", "-", " ", "V", "M", " ", "T", "R", "A", "C", "E", "S",
        " ", "A", "T", " ", "L", "A", "S", "T", " ", "A", "N", "R", " ", "-", "-", "-",
        "-", "-", "-", "\n", "\"", "m", "a", "i", "n", "\"", " ", "p", "r", "i", "o", "=",
        "5", " ", "t", "i", "d", "=", "1", " ", "R", "u", "n", "n", "a", "b", "l", "e",
        "\n", "-", "-", "-", "-", "-", " ", "e", "n", "d", " ", "1", "2", " ", "-", "-",
        "-", "-", "-">>,
     <<"-", "-", "-", "-", "-", "-", " ", "V", "M", " ", "T", "R", "A", "C", "E", "S",
        " ", "A", "T", " ", "L", "A", "S", "T", " ", "A", "N", "R", " ", "(", "/", "d",
        "a", "t", "a", "/", "a", "n", "r", "/", "a", ":", " ", "2", "0", "2", "4", "-",
        "0", "1", "-", "0", "2", " ", "0", "3", ":", "0", "4", ":", "0", "5", ")", " ",
        "-", "-", "-", "-", "-", "-", "\n", "\"", "t", "\"", " ", "p", "r", "i", "o", "=",
        "5", " ", "t", "i", "d", "=", "1", " ", "N", "a", "t", "i", "v", "e", "\n", " ",
        " ", "n", "a", "t", "i", "v", "e", ":", " ", "#", "0", "0", " ", "p", "c", " ",
        "0", "a", " ", " ", "(", "f", ")", "\n", " ", " ", "n", "a", "t", "i", "v", "e",
        ":", " ", "#", "0", "1", " ", "p", "c", " ", "0", "a", " ", "/", "l", ".", "s",
        "o", "(", "f", ")", "\n", " ", " ", "a", "t", " ", "a", ".", "B", ".", "c", "(",
        "B", ".", "j", "a", "v", "a", ")", "\n", "-", "-", "-", "-", "-", " ", "e", "n",
        "d", " ", "x", " ", "-", "-", "-", "-", "-", "\n", "\"", "u", "\"", " ", "p", "r",
        "i", "o", "=", "1", " ", "t", "i", "d", "=", "2", " ", "\n", " ", " ", "|", " ",
        "a", "=", "\"", "\"", " ", "b", "=", "\"", "c", " ", "d", "\"", " ", "e", "=",
        "\"", "f", "\n", "-", "-", "-", "-", "-", " ", "e", "n", "d", " ", "3", " ", "-",
        "-", "-", "-", "-", "\n", "a", "f", "t", "e", "r">>}

AnrReport(top, ls) ==
    Lines(<<AnrHeadLine>> \o top \o ls \o <<AnrEndLine, <<"a", "f", "t", "e", "r">>>>)

AnrReports ==
    {AnrReport(<<>>, <<h>> \o b) :
        h \in AnrThreadHeaders, b \in SeqsOf(AnrBodyLines, 0, MaxAnrBody)}
    \cup {AnrReport(top, <<h1>> \o b1 \o <<h2>> \o b2) :
            top \in AnrTops, h1 \in AnrThreadHeaders, h2 \in AnrThreadHeaders,
            b1 \in SeqsOf(AnrFewLines, 0, 1), b2 \in SeqsOf(AnrFewLines, 0, 1)}
    \cup {AnrReport(top, b) : top \in AnrTops, b \in SeqsOf(AnrBodyLines, 0, 1)}
    \cup OddAnrReports
    \cup NoSectionReports

(***************************************************************************)
(* The reports parse_account_service is run on: the header of the service, *)
(* the lines of the service, users (a header line, well-formed or not, and *)
(* up to MaxAccLines lines of its sub-sections), the line that ends the    *)
(* service.                                                                *)
(***************************************************************************)
MaxAccLines == 2

AccHeadLine ==
    <<"D", "U", "M", "P", " ", "O", "F", " ", "S", "E", "R", "V", "I", "C", "E", " ", "a",
      "c", "c", "o", "u", "n", "t", ":">>

AccEndLine ==
    <<"-", "-", "-", "-", "-", "-", "-", "-", "-", " ", "0", ".", "0", "1", "2", "s", " ",
      "w", "a", "s", " ", "t", "h", "e", " ", "d", "u", "r", "a", "t", "i", "o", "n", " ",
      "o", "f", " ", "d", "u", "m", "p", "s", "y", "s", " ", "a", "c", "c", "o", "u", "n",
      "t">>

OtherHeadLine ==
    <<"-", "-", "-", "-", "-", "-", " ", "x", " ", "-", "-", "-", "-", "-", "-">>

AfterLine ==
    <<"a", "f", "t", "e", "r">>

AccTopLines ==
    {<<"S", "e", "r", "v", "i", "c", "e", " ", "h", "o", "s", "t", " ", "p", "r", "o",
        "c", "e", "s", "s", " ", "P", "I", "D", ":", " ", "1", "2", "3", "4">>,
     <<"S", "e", "r", "v", "i", "c", "e", " ", "h", "o", "s", "t", " ", "p", "r", "o",
        "c", "e", "s", "s", " ", "P", "I", "D", ":", " ", "x">>,
     <<"T", "h", "r", "e", "a", "d", "s", " ", "i", "n", " ", "u", "s", "e", ":", " ",
        "0", "/", "1">>,
     <<"C", "l", "i", "e", "n", "t", " ", "P", "I", "D", "s", ":", " ", "1", ",", " ",
        "2">>}

AccUserHeaders ==
    {<<"U", "s", "e", "r", " ", "U", "s", "e", "r", "I", "n", "f", "o", "{", "0", ":",
        "O", "w", "n", "e", "r", ":", "c", "1", "3", "}", ":">>,
     <<"U", "s", "e", "r", " ", "U", "s", "e", "r", "I", "n", "f", "o", "{", "1", "0",
        ":", "W", "o", "r", "k", ":", "3", "0", "}", ":", " ", "e", "x", "t", "r", "a">>,
     <<"U", "s", "e", "r", " ", "U", "s", "e", "r", "I", "n", "f", "o", ":", " ", "x">>,
     <<"U", "s", "e", "r", " ", "U", "s", "e", "r", "I", "n", "f", "o">>}

AccUserLines ==
    {<<" ", " ", "A", "c", "c", "o", "u", "n", "t", "s", ":", " ", "1">>,
     <<" ", " ", " ", " ", "A", "c", "c", "o", "u", "n", "t", " ", "{", "n", "a", "m",
        "e", "=", "a", ",", " ", "t", "y", "p", "e", "=", "c", "o", "m", ".", "g", "}">>,
     <<" ", " ", "A", "c", "c", "o", "u", "n", "t", "s", " ", "H", "i", "s", "t", "o",
        "r", "y">>,
     <<" ", " ", " ", " ", "A", "c", "c", "o", "u", "n", "t", "I", "d", ",", " ", "A",
        "c", "t", "i", "o", "n", "_", "T", "y", "p", "e">>,
     <<" ", " ", " ", " ", "1", ",", "a", "d", "d">>,
     <<" ", " ", "A", "c", "t", "i", "v", "e", " ", "S", "e", "s", "s", "i", "o", "n",
        "s", ":", " ", "0">>,
     <<" ", " ", "A", "c", "t", "i", "v", "e", " ", "S", "e", "s", "s", "i", "o", "n",
        "s", ":", " ", "n", "o", "n", "e">>,
     <<" ", " ", "R", "e", "g", "i", "s", "t", "e", "r", "e", "d", "S", "e", "r", "v",
        "i", "c", "e", "s", "C", "a", "c", "h", "e", ":", " ", "2", " ", "s", "e", "r",
        "v", "i", "c", "e", "s">>,
     <<" ", " ", " ", " ", "S", "e", "r", "v", "i", "c", "e", "I", "n", "f", "o", ":",
        " ", "x">>,
     <<" ", " ", "A", "c", "c", "o", "u", "n", "t", " ", "v", "i", "s", "i", "b", "i",
        "l", "i", "t", "y", ":">>,
     <<" ", " ", " ", " ", "a", "@", "b">>,
     <<" ", " ", " ", "-", "-", "-", "-", "-", "-", "-", "-", "-", "x">>}

AccFewLines ==
    {<<" ", " ", "A", "c", "c", "o", "u", "n", "t", "s", ":", " ", "1">>,
     <<" ", " ", " ", " ", "A", "c", "c", "o", "u", "n", "t", " ", "{", "n", "a", "m",
        "e", "=", "a", ",", " ", "t", "y", "p", "e", "=", "c", "o", "m", ".", "g", "}">>}

\* a service without its end line, an empty one, two services, a header line with two
\* UserInfo, a visibility subsection of two accounts
OddAccReports ==
    {<<"D", "U", "M", "P", " ", "O", "F", " ", "S", "E", "R", "V", "I", "C", "E", " ",
        "a", "c", "c", "o", "u", "n", "t", ":", "\n", "U", "s", "e", "r", " ", "U", "s",
        "e", "r", "I", "n", "f", "o", "{", "0", ":", "O", "w", "n", "e", "r", ":", "c",
        "1", "3", "}", ":", "\n", " ", " ", "A", "c", "c", "o", "u", "n", "t", "s", ":",
        " ", "0">>,
     <<"D", "U", "M", "P", " ", "O", "F", " ", "S", "E", "R", "V", "I", "C", "E", " ",
        "a", "c", "c", "o", "u", "n", "t", ":", "\n", "-", "-", "-", "-", "-", "-", "-",
        "-", "-">>,
     <<"D", "U", "M", "P", " ", "O", "F", " ", "S", "E", "R", "V", "I", "C", "E", " ",
        "a", "c", "c", "o", "u", "n", "t", ":", "\n", "\n", "U", "s", "e", "r", " ", "U",
        "s", "e", "r", "I", "n", "f", "o", "{", "0", ":", "O", "w", "n", "e", "r", ":",
        "c", "1", "3", "}", ":", "\n", " ", " ", "A", "c", "c", "o", "u", "n", "t", " ",
        "v", "i", "s", "i", "b", "i", "l", "i", "t", "y", ":", "\n", " ", " ", " ", " ",
        "a", "@", "b", "\n", " ", " ", " ", " ", " ", " ", "c", "o", "m", ".", "x", ",",
        " ", "1", "\n", " ", " ", " ", " ", " ", " ", "c", "o", "m", ".", "y", ",", " ",
        "2", "\n", " ", " ", "A", "c", "c", "o", "u", "n", "t", "s", " ", "H", "i", "s",
        "t", "o", "r", "y", "\n", " ", " ", " ", " ", "2", ",", "r", "e", "m", "o", "v",
        "e", "\n", "-", "-", "-", "-", "-", "-", "-", "-", "-", "\n", "D", "U", "M", "P",
        " ", "O", "F", " ", "S", "E", "R", "V", "I", "C", "E", " ", "a", "c", "c", "o",
        "u", "n", "t", ":", "\n", "U", "s", "e", "r", " ", "U", "s", "e", "r", "I", "n",
        "f", "o", "{", "1", ":", "b", ":", "c", "}", ":", "\n", "-", "-", "-", "-", "-",
        "-", "-", "-", "-">>,
     <<"x", "D", "U", "M", "P", " ", "O", "F", " ", "S", "E", "R", "V", "I", "C", "E",
        " ", "a", "c", "c", "o", "u", "n", "t", ":", "\n", "U", "s", "e", "r", " ", "U",
        "s", "e", "r", "I", "n", "f", "o", "{", "0", ":", ":", "c", "1", "3", "}", ":",
        " ", "U", "s", "e", "r", "I", "n", "f", "o", "{", "5", ":", "a", ":", "b", "}",
        "\n", "-", "-", "-", "-", "-", "-", "-", "-", "-">>,
     <<"D", "U", "M", "P", " ", "O", "F", " ", "S", "E", "R", "V", "I", "C", "E", " ",
        "a", "c", "c", "o", "u", "n", "t", ":", "\n", "U", "s", "e", "r", " ", "U", "s",
        "e", "r", "I", "n", "f", "o", "{", "0", ":", "O", "w", "n", "e", "r", ":", "c",
        "1", "3", "}", ":", "\n", " ", " ", "A", "c", "c", "o", "u", "n", "t", " ", "v",
        "i", "s", "i", "b", "i", "l", "i", "t", "y", ":", "\n", " ", " ", " ", " ", "a",
        "@", "b", "\n", " ", " ", " ", " ", " ", " ", "c", "o", "m", ".", "x", ",", " ",
        "1", "\n", " ", " ", " ", " ", "c", "@", "d", "\n", " ", " ", " ", " ", " ", " ",
        "c", "o", "m", ".", "y", ",", " ", "2", "\n", "-", "-", "-", "-", "-", "-", "-",
        "-", "-", " ", "0", ".", "0", "1", "2", "s", " ", "w", "a", "s", " ", "t", "h",
        "e", " ", "d", "u", "r", "a", "t", "i", "o", "n", " ", "o", "f", " ", "d", "u",
        "m", "p", "s", "y", "s", " ", "a", "c", "c", "o", "u", "n", "t">>}

AccReport(ls) ==
    Lines(<<OtherHeadLine, AccHeadLine>> \o ls \o <<AccEndLine, AfterLine>>)

AccReports ==
    {AccReport(<<h>> \o b) :
        h \in AccUserHeaders, b \in SeqsOf(AccUserLines, 0, MaxAccLines)}
    \cup {AccReport(<<h1>> \o b1 \o <<h2>> \o b2) :
            h1 \in AccUserHeaders, h2 \in AccUserHeaders,
            b1 \in SeqsOf(AccFewLines, 0, 1), b2 \in SeqsOf(AccFewLines, 0, 1)}
    \cup {AccReport(b) : b \in SeqsOf(AccTopLines \cup AccFewLines, 0, MaxAccLines)}
    \cup OddAccReports
    \cup NoSectionReports

(***************************************************************************)
(* The reports parse_keyguard_service is run on: the header of the APP     *)
(* SERVICES section, the header line of the service, well-formed or not,   *)
(* up to MaxKgLines lines of the service, the line that ends the section.  *)
(***************************************************************************)
MaxKgLines == 2

AppServicesLine ==
    <<"-", "-", "-", "-", "-", "-", " ", "A", "P", "P", " ", "S", "E", "R", "V", "I", "C",
      "E", "S", " ", "(", "d", "u", "m", "p", "s", "y", "s", " ", "a", "c", "t", "i", "v",
      "i", "t", "y", " ", "s", "e", "r", "v", "i", "c", "e", " ", "a", "l", "l", ")", " ",
      "-", "-", "-", "-", "-", "-">>

KgHeadLines ==
    {<<"S", "E", "R", "V", "I", "C", "E", " ", "c", "o", "m", ".", "a", "n", "d", "r",
        "o", "i", "d", ".", "s", "y", "s", "t", "e", "m", "u", "i", "/", ".", "k", "e",
        "y", "g", "u", "a", "r", "d", ".", "K", "e", "y", "g", "u", "a", "r", "d", "S",
        "e", "r", "v", "i", "c", "e", " ", "1", "a", "2", "b", "3", "c", " ", "p", "i",
        "d", "=", "1", "2", "3", "4", " ", "u", "s", "e", "r", "=", "0">>,
     <<"S", "E", "R", "V", "I", "C", "E", " ", "c", "o", "m", ".", "a", "n", "d", "r",
        "o", "i", "d", ".", "s", "y", "s", "t", "e", "m", "u", "i", "/", ".", "k", "e",
        "y", "g", "u", "a", "r", "d", ".", "K", "e", "y", "g", "u", "a", "r", "d", "S",
        "e", "r", "v", "i", "c", "e">>}

KgEndLine ==
    <<"-", "-", "-", "-", "-", "-", " ", "0", ".", "1", "s", " ", "w", "a", "s", " ", "t",
      "h", "e", " ", "d", "u", "r", "a", "t", "i", "o", "n", " ", "o", "f", " ", "'", "A",
      "P", "P", " ", "S", "E", "R", "V", "I", "C", "E", "S", "'", " ", "-", "-", "-", "-",
      "-", "-">>

KgLines ==
    {<<" ", " ", "K", "e", "y", "g", "u", "a", "r", "d", "U", "n", "l", "o", "c", "k",
        "I", "n", "f", "o">>,
     <<" ", " ", " ", " ", "0", "1", "-", "0", "2", " ", "0", "3", ":", "0", "4", ":",
        "0", "5", ".", "6", "7", "8", " ", " ", "u", "n", "l", "o", "c", "k", "e", "d",
        " ", "b", "y", " ", "x">>,
     <<" ", " ", " ", " ", "b", "a", "d", " ", "l", "o", "g">>,
     <<" ", " ", "U", "s", "e", "r", " ", "0">>,
     <<" ", " ", "U", "s", "e", "r", " ", "x">>,
     <<" ", " ", " ", " ", "m", "K", "e", "y", ":", " ", "v", "a", "l", ":", " ", "w">>,
     <<" ", " ", " ", " ", "p", "l", "a", "i", "n">>}

\* a service without an end line, two services, an indented header, an awkward header
\* and awkward log lines, the package service inside the section
OddKgReports ==
    {<<"S", "E", "R", "V", "I", "C", "E", " ", "c", "o", "m", ".", "a", "n", "d", "r",
        "o", "i", "d", ".", "s", "y", "s", "t", "e", "m", "u", "i", "/", ".", "k", "e",
        "y", "g", "u", "a", "r", "d", ".", "K", "e", "y", "g", "u", "a", "r", "d", "S",
        "e", "r", "v", "i", "c", "e", " ", "1", "a", "2", "b", "3", "c", " ", "p", "i",
        "d", "=", "1", "2", "3", "4", " ", "u", "s", "e", "r", "=", "0", "\n", " ", " ",
        "U", "s", "e", "r", " ", "0", "\n", " ", " ", " ", " ", "a", ":", " ", "b">>,
     <<"x", "\n", "S", "E", "R", "V", "I", "C", "E", " ", "c", "o", "m", ".", "a", "n",
        "d", "r", "o", "i", "d", ".", "s", "y", "s", "t", "e", "m", "u", "i", "/", ".",
        "k", "e", "y", "g", "u", "a", "r", "d", ".", "K", "e", "y", "g", "u", "a", "r",
        "d", "S", "e", "r", "v", "i", "c", "e", " ", "1", "a", "2", "b", "3", "c", " ",
        "p", "i", "d", "=", "1", "2", "3", "4", " ", "u", "s", "e", "r", "=", "0", "\n",
        " ", " ", "U", "s", "e", "r", " ", "0", "\n", " ", " ", " ", " ", "a", ":", " ",
        "b", "\n", " ", " ", "U", "s", "e", "r", " ", "1", "\n", " ", " ", " ", " ", "c",
        ":", " ", "d", "\n", " ", " ", "U", "s", "e", "r", " ", "0", "\n", "-", "-", "-",
        "-", "-", "-", " ", "0", ".", "1", "s", " ", "w", "a", "s", " ", "t", "h", "e",
        " ", "d", "u", "r", "a", "t", "i", "o", "n", " ", "o", "f", " ", "'", "A", "P",
        "P", " ", "S", "E", "R", "V", "I", "C", "E", "S", "'", " ", "-", "-", "-", "-",
        "-", "-", "\n", " ", " ", " ", " ", "e", ":", " ", "f", "\n", "S", "E", "R", "V",
        "I", "C", "E", " ", "c", "o", "m", ".", "a", "n", "d", "r", "o", "i", "d", ".",
        "s", "y", "s", "t", "e", "m", "u", "i", "/", ".", "k", "e", "y", "g", "u", "a",
        "r", "d", ".", "K", "e", "y", "g", "u", "a", "r", "d", "S", "e", "r", "v", "i",
        "c", "e", " ", "d", "e", "f", " ", "p", "i", "d", "=", "2", " ", "u", "s", "e",
        "r", "=", "1", "0", "\n", " ", " ", "U", "s", "e", "r", " ", "7", "\n", " ", " ",
        " ", " ", "g", ":", " ", "h", "\n", "-", "-", "-", "-", "-", "-", " ", "0", ".",
        "1", "s", " ", "w", "a", "s", " ", "t", "h", "e", " ", "d", "u", "r", "a", "t",
        "i", "o", "n", " ", "o", "f", " ", "'", "A", "P", "P", " ", "S", "E", "R", "V",
        "I", "C", "E", "S", "'", " ", "-", "-", "-", "-", "-", "-">>,
     <<" ", "S", "E", "R", "V", "I", "C", "E", " ", "c", "o", "m", ".", "a", "n", "d",
        "r", "o", "i", "d", ".", "s", "y", "s", "t", "e", "m", "u", "i", "/", ".", "k",
        "e", "y", "g", "u", "a", "r", "d", ".", "K", "e", "y", "g", "u", "a", "r", "d",
        "S", "e", "r", "v", "i", "c", "e", " ", "1", "a", "2", "b", "3", "c", " ", "p",
        "i", "d", "=", "1", "2", "3", "4", " ", "u", "s", "e", "r", "=", "0", "\n", "-",
        "-", "-", "-", "-", "-", " ", "0", ".", "1", "s", " ", "w", "a", "s", " ", "t",
        "h", "e", " ", "d", "u", "r", "a", "t", "i", "o", "n", " ", "o", "f", " ", "'",
        "A", "P", "P", " ", "S", "E", "R", "V", "I", "C", "E", "S", "'", " ", "-", "-",
        "-", "-", "-", "-">>,
     <<"S", "E", "R", "V", "I", "C", "E", " ", "c", "o", "m", ".", "a", "n", "d", "r",
        "o", "i", "d", ".", "s", "y", "s", "t", "e", "m", "u", "i", "/", ".", "k", "e",
        "y", "g", "u", "a", "r", "d", ".", "K", "e", "y", "g", "u", "a", "r", "d", "S",
        "e", "r", "v", "i", "c", "e", "X", " ", " ", "0", "f", " ", " ", " ", "p", "i",
        "d", "=", "0", "1", " ", " ", "u", "s", "e", "r", "=", "2", "x", "\n", " ", " ",
        "K", "e", "y", "g", "u", "a", "r", "d", "U", "n", "l", "o", "c", "k", "I", "n",
        "f", "o", "\n", " ", " ", " ", " ", "0", "1", "-", "0", "2", " ", "0", "3", ":",
        "0", "4", ":", "0", "5", ".", "6", "7", "8", " ", "\n", " ", " ", " ", " ", "0",
        "1", "-", "0", "2", "\t", "0", "3", ":", "0", "4", ":", "0", "5", ".", "6", "7",
        "8", " ", "\t", "m", "\n", "-", "-", "-", "-", "-", "-", " ", "0", ".", "1", "s",
        " ", "w", "a", "s", " ", "t", "h", "e", " ", "d", "u", "r", "a", "t", "i", "o",
        "n", " ", "o", "f", " ", "'", "A", "P", "P", " ", "S", "E", "R", "V", "I", "C",
        "E", "S", "'", " ", "-", "-", "-", "-", "-", "-">>,
     <<"S", "E", "R", "V", "I", "C", "E", " ", "c", "o", "m", ".", "a", "n", "d", "r",
        "o", "i", "d", ".", "s", "y", "s", "t", "e", "m", "u", "i", "/", ".", "k", "e",
        "y", "g", "u", "a", "r", "d", ".", "K", "e", "y", "g", "u", "a", "r", "d", "S",
        "e", "r", "v", "i", "c", "e", " ", "1", "a", "2", "b", "3", "c", " ", "p", "i",
        "d", "=", "1", "2", "3", "4", " ", "u", "s", "e", "r", "=", "0", "\n", "D", "U",
        "M", "P", " ", "O", "F", " ", "S", "E", "R", "V", "I", "C", "E", " ", "p", "a",
        "c", "k", "a", "g", "e", ":", "\n", "P", "a", "c", "k", "a", "g", "e", "s", ":",
        "\n", " ", " ", "U", "s", "e", "r", " ", "7", "\n", " ", " ", " ", " ", "P", "a",
        "c", "k", "a", "g", "e", " ", "[", "c", "o", "m", ".", "x", "]", "\n", "-", "-",
        "-", "-", "-", "-", "-", "-", "-", "\n", "-", "-", "-", "-", "-", "-", " ", "0",
        ".", "1", "s", " ", "w", "a", "s", " ", "t", "h", "e", " ", "d", "u", "r", "a",
        "t", "i", "o", "n", " ", "o", "f", " ", "'", "A", "P", "P", " ", "S", "E", "R",
        "V", "I", "C", "E", "S", "'", " ", "-", "-", "-", "-", "-", "-">>}

KgReport(h, ls) ==
    Lines(<<AppServicesLine, h>> \o ls \o <<KgEndLine, AfterLine>>)

KgReports ==
    {KgReport(h, b) : h \in KgHeadLines, b \in SeqsOf(KgLines, 0, MaxKgLines)}
    \cup OddKgReports
    \cup NoSectionReports

(***************************************************************************)
(* The reports parse_lsmod and parse_mount_points are run on: the header   *)
(* of the section, up to MaxSeqLines lines, well-formed or not, the line   *)
(* that ends the section.                                                  *)
(***************************************************************************)
MaxSeqLines == 3

LsmodHeadLine ==
    <<"-", "-", "-", "-", "-", "-", " ", "L", "S", "M", "O", "D", " ", "(", "l", "s", "m",
      "o", "d", ")", " ", "-", "-", "-", "-", "-", "-">>

LsmodEndLine ==
    <<"-", "-", "-", "-", "-", "-", " ", "0", ".", "0", "1", "s", " ", "w", "a", "s", " ",
      "t", "h", "e", " ", "d", "u", "r", "a", "t", "i", "o", "n", " ", "o", "f", " ", "'",
      "L", "S", "M", "O", "D", "'", " ", "-", "-", "-", "-", "-", "-">>

LsmodLines ==
    {<<"M", "o", "d", "u", "l", "e", " ", " ", " ", " ", " ", " ", " ", " ", " ", " ",
        " ", " ", " ", " ", " ", " ", " ", " ", "S", "i", "z", "e", " ", " ", "U", "s",
        "e", "d", " ", "b", "y">>,
     <<"w", "l", "a", "n", " ", "1", "2", "3", " ", "0">>,
     <<" ", " ", "s", "n", "d", "_", "s", "o", "c", " ", "4", "5", " ", "2", " ", "a",
        ",", "b", ",", " ", ",", "c", ",">>,
     <<"j", "u", "n", "k">>,
     <<"f", "o", "o", " ", "x", " ", "0">>,
     <<" ">>}

\* a section without its end line, an empty one, two sections, a section ended by the
\* header of the next one, a section followed by a log
OddLsmodReports ==
    {<<"-", "-", "-", "-", "-", "-", " ", "L", "S", "M", "O", "D", " ", "(", "l", "s",
        "m", "o", "d", ")", " ", "-", "-", "-", "-", "-", "-", "\n", "w", "l", "a", "n",
        " ", "1", "2", "3", " ", "0">>,
     <<"-", "-", "-", "-", "-", "-", " ", "L", "S", "M", "O", "D", " ", "(", "l", "s",
        "m", "o", "d", ")", " ", "-", "-", "-", "-", "-", "-", "\n", "-", "-", "-", "-",
        "-", "-">>,
     <<"-", "-", "-", "-", "-", "-", " ", "L", "S", "M", "O", "D", " ", "(", "l", "s",
        "m", "o", "d", ")", " ", "-", "-", "-", "-", "-", "-", "\n", "\n", " ", "M", "o",
        "d", "u", "l", "e", " ", "x", "\n", "a", " ", "+", "1", "_", "0", " ", "1", " ",
        "b", "\n", "-", "-", "-", "-", "-", "-", " ", "L", "S", "M", "O", "D", " ", "(",
        "l", "s", "m", "o", "d", ")", " ", "-", "-", "-", "-", "-", "-", "\n", "c", " ",
        "2", " ", "0", "\n", "-", "-", "-", "-", "-", "-">>,
     <<"-", "-", "-", "-", "-", "-", " ", "L", "S", "M", "O", "D", " ", "(", "l", "s",
        "m", "o", "d", ")", " ", "-", "-", "-", "-", "-", "-", "\n", "w", "l", "a", "n",
        " ", "1", "2", "3", " ", "0", "\n", "-", "-", "-", "-", "-", "-", " ", "M", "O",
        "U", "N", "T", " ", "P", "O", "I", "N", "T", " ", "D", "U", "M", "P", " ", "(",
        "m", "o", "u", "n", "t", ")", " ", "-", "-", "-", "-", "-", "-", "\n", "/", "d",
        "e", "v", "/", "a", " ", "o", "n", " ", "/", " ", "t", "y", "p", "e", " ", "e",
        "x", "t", "4", " ", "(", "r", "o", ",", "s", "e", "c", "l", "a", "b", "e", "l",
        ")", "\n", "-", "-", "-", "-", "-", "-", " ", "0", ".", "0", "1", "s", " ", "w",
        "a", "s", " ", "t", "h", "e", " ", "d", "u", "r", "a", "t", "i", "o", "n", " ",
        "o", "f", " ", "'", "M", "O", "U", "N", "T", " ", "P", "O", "I", "N", "T", " ",
        "D", "U", "M", "P", "'", " ", "-", "-", "-", "-", "-", "-">>,
     <<"-", "-", "-", "-", "-", "-", " ", "L", "S", "M", "O", "D", " ", "(", "l", "s",
        "m", "o", "d", ")", " ", "-", "-", "-", "-", "-", "-", "\n", "w", "l", "a", "n",
        " ", "1", "2", "3", " ", "0", "\n", "-", "-", "-", "-", "-", "-", " ", "0", ".",
        "0", "1", "s", " ", "w", "a", "s", " ", "t", "h", "e", " ", "d", "u", "r", "a",
        "t", "i", "o", "n", " ", "o", "f", " ", "'", "L", "S", "M", "O", "D", "'", " ",
        "-", "-", "-", "-", "-", "-", "\n", "-", "-", "-", "-", "-", "-", " ", "E", "V",
        "E", "N", "T", " ", "L", "O", "G", " ", "(", "l", "o", "g", "c", "a", "t", " ",
        "-", "b", " ", "e", "v", "e", "n", "t", "s", ")", " ", "-", "-", "-", "-", "-",
        "-", "\n", "2", "0", "2", "4", "-", "0", "1", "-", "0", "2", " ", "0", "3", ":",
        "0", "4", ":", "0", "5", ".", "6", "7", "8", ":", " ", "S", "T", "A", "R", "T",
        " ", "I", "N", "S", "T", "A", "L", "L", " ", "P", "A", "C", "K", "A", "G", "E",
        ":", " ", "o", "b", "s", "e", "r", "v", "e", "r", "{", "1", "}">>}

LsmodReport(ls) ==
    Lines(<<OtherHeadLine, LsmodHeadLine>> \o ls \o <<LsmodEndLine, AfterLine>>)

LsmodReports ==
    {LsmodReport(b) : b \in SeqsOf(LsmodLines, 0, MaxSeqLines)}
    \cup OddLsmodReports
    \cup NoSectionReports

MountHeadLine ==
    <<"-", "-", "-", "-", "-", "-", " ", "M", "O", "U", "N", "T", " ", "P", "O", "I", "N",
      "T", " ", "D", "U", "M", "P", " ", "(", "m", "o", "u", "n", "t", ")", " ", "-", "-",
      "-", "-", "-", "-">>

MountEndLine ==
    <<"-", "-", "-", "-", "-", "-", " ", "0", ".", "0", "1", "s", " ", "w", "a", "s", " ",
      "t", "h", "e", " ", "d", "u", "r", "a", "t", "i", "o", "n", " ", "o", "f", " ", "'",
      "M", "O", "U", "N", "T", " ", "P", "O", "I", "N", "T", " ", "D", "U", "M", "P", "'",
      " ", "-", "-", "-", "-", "-", "-">>

MountLines ==
    {<<"/", "d", "e", "v", "/", "a", " ", "o", "n", " ", "/", " ", "t", "y", "p", "e",
        " ", "e", "x", "t", "4", " ", "(", "r", "o", ",", "s", "e", "c", "l", "a", "b",
        "e", "l", ")">>,
     <<" ", " ", "t", "m", "p", "f", "s", " ", " ", "o", "n", " ", " ", "/", "d", "e",
        "v", " ", " ", "t", "y", "p", "e", " ", " ", "t", "m", "p", "f", "s", " ", " ",
        "(", "r", "w", ",", " ", "n", "o", "s", "u", "i", "d", " ", ")", " ", "x", ")">>,
     <<"j", "u", "n", "k", " ", "l", "i", "n", "e">>,
     <<"p", "r", "o", "c", " ", "o", "n", " ", "/", "p", "r", "o", "c", " ", "t", "y",
        "p", "e", " ", "p", "r", "o", "c">>,
     <<" ">>}

\* a section without its end line, an empty one, awkward entries
OddMountReports ==
    {<<"-", "-", "-", "-", "-", "-", " ", "M", "O", "U", "N", "T", " ", "P", "O", "I",
        "N", "T", " ", "D", "U", "M", "P", " ", "(", "m", "o", "u", "n", "t", ")", " ",
        "-", "-", "-", "-", "-", "-", "\n", "/", "d", "e", "v", "/", "a", " ", "o", "n",
        " ", "/", " ", "t", "y", "p", "e", " ", "e", "x", "t", "4", " ", "(", "r", "o",
        ",", "s", "e", "c", "l", "a", "b", "e", "l", ")">>,
     <<"-", "-", "-", "-", "-", "-", " ", "M", "O", "U", "N", "T", " ", "P", "O", "I",
        "N", "T", " ", "D", "U", "M", "P", " ", "(", "m", "o", "u", "n", "t", ")", " ",
        "-", "-", "-", "-", "-", "-", "\n", "-", "-", "-", "-", "-", "-">>,
     <<"-", "-", "-", "-", "-", "-", " ", "M", "O", "U", "N", "T", " ", "P", "O", "I",
        "N", "T", " ", "D", "U", "M", "P", " ", "(", "m", "o", "u", "n", "t", ")", " ",
        "-", "-", "-", "-", "-", "-", "\n", "a", " ", "o", "n", " ", "b", " ", "t", "y",
        "p", "e", " ", "c", " ", "(", ")", "\n", "x", " ", "a", " ", "o", "n", " ", "b",
        " ", "t", "y", "p", "e", " ", "c", " ", "(", "d", ")", "\n", "a", " ", "o", "n",
        " ", "o", "n", " ", "b", " ", "t", "y", "p", "e", " ", "c", " ", "(", "d", ")",
        "\n", "-", "-", "-", "-", "-", "-">>}

MountReport(ls) ==
    Lines(<<OtherHeadLine, MountHeadLine>> \o ls \o <<MountEndLine, AfterLine>>)

MountReports ==
    {MountReport(b) : b \in SeqsOf(MountLines, 0, MaxSeqLines)}
    \cup OddMountReports
    \cup NoSectionReports

(***************************************************************************)
(* The specifications.  Spec: one parser is called on one report.  SpecSub: *)
(* one rewrite rule is applied pass after pass to one text.                *)
(***************************************************************************)
(***************************************************************************)
(* The reports parse_dumpstate_header is run on: the banner, up to         *)
(* MaxHdrLines lines of the header (keys with one-line and multi-line      *)
(* values, lines without a key), then the end of the report or a section.  *)
(***************************************************************************)
MaxHdrLines == 3

HdrTop ==
    <<"=", "=", "=", "=", "=", "=", "=", "=", "=", "=", "=", "=", "=", "=", "=", "=", "=",
      "=", "=", "=", "=", "=", "=", "=", "=", "=", "=", "=", "=", "=", "=", "=", "=", "=",
      "=", "=", "=", "=", "=", "=", "=", "=", "=", "=", "=", "=", "=", "=", "=", "=", "=",
      "=", "=", "=", "=", "=", "\n", "=", "=", " ", "d", "u", "m", "p", "s", "t", "a",
      "t", "e", ":", " ", "2", "0", "2", "4", "-", "0", "1", "-", "0", "2", " ", "0", "3",
      ":", "0", "4", ":", "0", "5", "\n", "=", "=", "=", "=", "=", "=", "=", "=", "=",
      "=", "=", "=", "=", "=", "=", "=", "=", "=", "=", "=", "=", "=", "=", "=", "=", "=",
      "=", "=", "=", "=", "=", "=", "=", "=", "=", "=", "=", "=", "=", "=", "=", "=", "=",
      "=", "=", "=", "=", "=", "=", "=", "=", "=", "=", "=", "=", "=", "\n">>

HdrLinePool ==
    {<<"B", "u", "i", "l", "d", ":", " ", "A", "P", "1", "A", ".", "2", "4", "0", "4",
        "0", "5">>,
     <<"K", "e", "r", "n", "e", "l", ":", " ", "L", "i", "n", "u", "x", " ", "v", "e",
        "r", "s", "i", "o", "n", " ", "5", ".", "1", "0">>,
     <<" ", "(", "g", "c", "c", " ", "1", "2", ")", " ", "#", "1", " ", "S", "M", "P">>,
     <<>>,
     <<"S", "D", "K", " ", "v", "e", "r", "s", "i", "o", "n", ":", " ", "3", "4">>,
     <<"S", "D", "K", " ", "v", "e", "r", "s", "i", "o", "n", ":", " ", "x">>,
     <<"S", "D", "K", " ", "e", "x", "t", "e", "n", "s", "i", "o", "n", "s", ":", " ",
        "[", "r", "=", "1", "0", ",", " ", "s", "=", "9", "]">>,
     <<"U", "p", "t", "i", "m", "e", ":", " ", "u", "p", " ", "0", " ", "w", "e", "e",
        "k", "s", ",", " ", "1", " ", "d", "a", "y", ",", " ", "2", " ", "h", "o", "u",
        "r", "s", ",", " ", " ", "l", "o", "a", "d", " ", "a", "v", "e", "r", "a", "g",
        "e", ":", " ", "0", ".", "5", ",", " ", "1", ".", "2", "5", ",", " ", "2", ".",
        "0">>,
     <<"O", "t", "h", "e", "r", "-", "K", "e", "y", ":", " ", "v">>}

HdrTails ==
    {<<>>,
     <<"\n", "-", "-", "-", "-", "-", "-", " ", "S", "Y", "S", "T", "E", "M", " ", "L",
        "O", "G", " ", "(", "l", "o", "g", "c", "a", "t", ")", " ", "-", "-", "-", "-",
        "-", "-", "\n", "a", "f", "t", "e", "r", ":", " ", "1">>}

\* a banner without its rule, without the empty line, an empty header, values
\* that are no numbers, values of several lines
OddHdrReports ==
    {<<"=", "=", " ", "d", "u", "m", "p", "s", "t", "a", "t", "e", ":", " ", "2", "0",
        "2", "4", "-", "0", "1", "-", "0", "2", " ", "0", "3", ":", "0", "4", ":", "0",
        "5", "\n", "B", "u", "i", "l", "d", ":", " ", "x">>,
     <<"=", "=", "=", "=", "=", "=", "=", "=", "=", "=", "=", "=", "=", "=", "=", "=",
        "=", "=", "=", "=", "=", "=", "=", "=", "=", "=", "=", "=", "=", "=", "=", "=",
        "=", "=", "=", "=", "=", "=", "=", "=", "=", "=", "=", "=", "=", "=", "=", "=",
        "=", "=", "=", "=", "=", "=", "=", "=", "\n", "=", "=", " ", "d", "u", "m", "p",
        "s", "t", "a", "t", "e", ":", " ", "2", "0", "2", "4", "-", "0", "1", "-", "0",
        "2", " ", "0", "3", ":", "0", "4", ":", "0", "5", "\n", "=", "=", "=", "=", "=",
        "=", "=", "=", "=", "=", "=", "=", "=", "=", "=", "=", "=", "=", "=", "=", "=",
        "=", "=", "=", "=", "=", "=", "=", "=", "=", "=", "=", "=", "=", "=", "=", "=",
        "=", "=", "=", "=", "=", "=", "=", "=", "=", "=", "=", "=", "=", "=", "=", "=",
        "=", "=", "=", "\n", "B", "u", "i", "l", "d", ":", " ", "x">>,
     <<"=", "=", "=", "=", "=", "=", "=", "=", "=", "=", "=", "=", "=", "=", "=", "=",
        "=", "=", "=", "=", "=", "=", "=", "=", "=", "=", "=", "=", "=", "=", "=", "=",
        "=", "=", "=", "=", "=", "=", "=", "=", "=", "=", "=", "=", "=", "=", "=", "=",
        "=", "=", "=", "=", "=", "=", "=", "=", "\n", "=", "=", " ", "d", "u", "m", "p",
        "s", "t", "a", "t", "e", ":", " ", "2", "0", "2", "4", "-", "0", "1", "-", "0",
        "2", " ", "0", "3", ":", "0", "4", ":", "0", "5", "\n", "=", "=", "=", "=", "=",
        "=", "=", "=", "=", "=", "=", "=", "=", "=", "=", "=", "=", "=", "=", "=", "=",
        "=", "=", "=", "=", "=", "=", "=", "=", "=", "=", "=", "=", "=", "=", "=", "=",
        "=", "=", "=", "=", "=", "=", "=", "=", "=", "=", "=", "=", "=", "=", "=", "=",
        "=", "=", "=", "\n", "\n", "\n", "-", "-", "-", "-", "-", "-", " ", "x", " ", "-",
        "-", "-", "-", "-", "-", "\n", "B", "u", "i", "l", "d", ":", " ", "x">>,
     <<"=", "=", "=", "=", "=", "=", "=", "=", "=", "=", "=", "=", "=", "=", "=", "=",
        "=", "=", "=", "=", "=", "=", "=", "=", "=", "=", "=", "=", "=", "=", "=", "=",
        "=", "=", "=", "=", "=", "=", "=", "=", "=", "=", "=", "=", "=", "=", "=", "=",
        "=", "=", "=", "=", "=", "=", "=", "=", "\n", "=", "=", " ", "d", "u", "m", "p",
        "s", "t", "a", "t", "e", ":", " ", "2", "0", "2", "4", "-", "0", "1", "-", "0",
        "2", " ", "0", "3", ":", "0", "4", ":", "0", "5", "\n", "=", "=", "=", "=", "=",
        "=", "=", "=", "=", "=", "=", "=", "=", "=", "=", "=", "=", "=", "=", "=", "=",
        "=", "=", "=", "=", "=", "=", "=", "=", "=", "=", "=", "=", "=", "=", "=", "=",
        "=", "=", "=", "=", "=", "=", "=", "=", "=", "=", "=", "=", "=", "=", "=", "=",
        "=", "=", "=", "\n", "\n", "U", "p", "t", "i", "m", "e", ":", " ", "l", "o", "a",
        "d", " ", "a", "v", "e", "r", "a", "g", "e", ":", " ", "1", ".", "2", ".", "3",
        ",", " ", "0", ".", "5", ",", " ", "0", ".", "5", "\n", "B", "u", "i", "l", "d",
        ":", " ", "x">>,
     <<"=", "=", "=", "=", "=", "=", "=", "=", "=", "=", "=", "=", "=", "=", "=", "=",
        "=", "=", "=", "=", "=", "=", "=", "=", "=", "=", "=", "=", "=", "=", "=", "=",
        "=", "=", "=", "=", "=", "=", "=", "=", "=", "=", "=", "=", "=", "=", "=", "=",
        "=", "=", "=", "=", "=", "=", "=", "=", "\n", "=", "=", " ", "d", "u", "m", "p",
        "s", "t", "a", "t", "e", ":", " ", "2", "0", "2", "4", "-", "0", "1", "-", "0",
        "2", " ", "0", "3", ":", "0", "4", ":", "0", "5", "\n", "=", "=", "=", "=", "=",
        "=", "=", "=", "=", "=", "=", "=", "=", "=", "=", "=", "=", "=", "=", "=", "=",
        "=", "=", "=", "=", "=", "=", "=", "=", "=", "=", "=", "=", "=", "=", "=", "=",
        "=", "=", "=", "=", "=", "=", "=", "=", "=", "=", "=", "=", "=", "=", "=", "=",
        "=", "=", "=", "\n", "\n", "U", "p", "t", "i", "m", "e", ":", " ", "u", "p", " ",
        "3", " ", "m", "i", "n", "u", "t", "e", "s", "\n", " ", "l", "o", "a", "d", " ",
        "a", "v", "e", "r", "a", "g", "e", ":", " ", "0", ".", "5", ",", " ", "0", ".",
        "5", ",", " ", "0", ".", "5", "\n", "C", "o", "m", "m", "a", "n", "d", " ", "l",
        "i", "n", "e", ":", " ", "a", "=", "1", "\n", " ", "b", "=", "2", "\n", " ", "\n",
        "-", "-", "-", "-", "-", "-", "x", "\n", "R", "a", "d", "i", "o", ":", " ", "r">>,
     <<"=", "=", "=", "=", "=", "=", "=", "=", "=", "=", "=", "=", "=", "=", "=", "=",
        "=", "=", "=", "=", "=", "=", "=", "=", "=", "=", "=", "=", "=", "=", "=", "=",
        "=", "=", "=", "=", "=", "=", "=", "=", "=", "=", "=", "=", "=", "=", "=", "=",
        "=", "=", "=", "=", "=", "=", "=", "=", "\n", "=", "=", " ", "d", "u", "m", "p",
        "s", "t", "a", "t", "e", ":", " ", "2", "0", "2", "4", "-", "0", "1", "-", "0",
        "2", " ", "0", "3", ":", "0", "4", ":", "0", "5", "\n", "=", "=", "=", "=", "=",
        "=", "=", "=", "=", "=", "=", "=", "=", "=", "=", "=", "=", "=", "=", "=", "=",
        "=", "=", "=", "=", "=", "=", "=", "=", "=", "=", "=", "=", "=", "=", "=", "=",
        "=", "=", "=", "=", "=", "=", "=", "=", "=", "=", "=", "=", "=", "=", "=", "=",
        "=", "=", "=", "\n", "\n", "n", "o", " ", "c", "o", "l", "o", "n", "\n", "B", "u",
        "i", "l", "d", "-", "F", "i", "n", "g", "e", "r", "p", "r", "i", "n", "t", ":",
        " ", " ", "g", "/", "x", ":", "1", "3", " ", "\n", "\t", "t", "a", "i", "l", "\n",
        "\n", "T", "i", "m", "e", "s", "t", "a", "m", "p", ":", " ", "t", "\n", "S", "D",
        "K", " ", "v", "e", "r", "s", "i", "o", "n", ":", " ", "3", "_", "4", "\n">>,
     <<"=", "=", "=", "=", "=", "=", "=", "=", "=", "=", "=", "=", "=", "=", "=", "=",
        "=", "=", "=", "=", "=", "=", "=", "=", "=", "=", "=", "=", "=", "=", "=", "=",
        "=", "=", "=", "=", "=", "=", "=", "=", "=", "=", "=", "=", "=", "=", "=", "=",
        "=", "=", "=", "=", "=", "=", "=", "=", "\n", "=", "=", " ", "d", "u", "m", "p",
        "s", "t", "a", "t", "e", ":", " ", "2", "0", "2", "4", "-", "0", "1", "-", "0",
        "2", " ", "0", "3", ":", "0", "4", ":", "0", "5", "\n", "=", "=", "=", "=", "=",
        "=", "=", "=", "=", "=", "=", "=", "=", "=", "=", "=", "=", "=", "=", "=", "=",
        "=", "=", "=", "=", "=", "=", "=", "=", "=", "=", "=", "=", "=", "=", "=", "=",
        "=", "=", "=", "=", "=", "=", "=", "=", "=", "=", "=", "=", "=", "=", "=", "=",
        "=", "=", "=", "\n", "\n", "B", "o", "o", "t", "l", "o", "a", "d", "e", "r", ":",
        " ", "b", "\n", "N", "e", "t", "w", "o", "r", "k", ":", " ", "n", "\n", "U", "p",
        "t", "i", "m", "e", ":", " ", "1", " ", "w", "e", "e", "k", " ", "2", " ", "d",
        "a", "y", "s", ",", " ", "l", "o", "a", "d", " ", "a", "v", "e", "r", "a", "g",
        "e", ":", " ", ".", ",", " ", "1", ",", " ", "1">>,
     <<"=", "=", "=", "=", "=", "=", "=", "=", "=", "=", "=", "=", "=", "=", "=", "=",
        "=", "=", "=", "=", "=", "=", "=", "=", "=", "=", "=", "=", "=", "=", "=", "=",
        "=", "=", "=", "=", "=", "=", "=", "=", "=", "=", "=", "=", "=", "=", "=", "=",
        "=", "=", "=", "=", "=", "=", "=", "=", "\n", "=", "=", " ", "d", "u", "m", "p",
        "s", "t", "a", "t", "e", ":", " ", "2", "0", "2", "4", "-", "0", "1", "-", "0",
        "2", " ", "0", "3", ":", "0", "4", ":", "0", "5", "\n", "=", "=", "=", "=", "=",
        "=", "=", "=", "=", "=", "=", "=", "=", "=", "=", "=", "=", "=", "=", "=", "=",
        "=", "=", "=", "=", "=", "=", "=", "=", "=", "=", "=", "=", "=", "=", "=", "=",
        "=", "=", "=", "=", "=", "=", "=", "=", "=", "=", "=", "=", "=", "=", "=", "=",
        "=", "=", "=", "\n", "\n", "U", "p", "t", "i", "m", "e", ":", " ", "u", "p", " ",
        "1", " ", "w", "e", "e", "k", "s", ",", " ", "2", " ", "m", "i", "n", "u", "t",
        "e", ",", "\n", "\n", "-", "-", "-", "-", "-", "-", "X", "\n", " ", "l", "o", "a",
        "d", " ", "a", "v", "e", "r", "a", "g", "e", ":", " ", "1", ".", ",", " ", ".",
        "5", ",", " ", "7", "\n", "S", "D", "K", " ", "e", "x", "t", "e", "n", "s", "i",
        "o", "n", "s", ":", " ", "a", "=", "1", " ", "b", "=", "x", " ", "c", "=", "2",
        "\n", "-", "-", "-", "-", "-", "-", "\t", "x">>}

HdrReport(ls, tail) == HdrTop \o <<"\n">> \o Lines(ls) \o tail

HdrReports ==
    {HdrReport(ls, tail) : ls \in SeqsOf(HdrLinePool, 0, MaxHdrLines), tail \in HdrTails}
    \cup OddHdrReports
    \cup NoSectionReports

Parsers ==
    {"parse_usb_manager_state", "parse_process_info", "parse_package_install_log",
     "parse_package_info", "parse_anr_traces", "parse_account_service",
     "parse_keyguard_service", "parse_lsmod", "parse_mount_points"}

ReportsFor(p) ==
    CASE p = "parse_usb_manager_state" -> UsbReports \cup NoSectionReports
      [] p = "parse_process_info" -> ProcReports
      [] p = "parse_package_install_log" -> LogReports
      [] p = "parse_package_info" -> PkgReports
      [] p = "parse_anr_traces" -> AnrReports
      [] p = "parse_account_service" -> AccReports
      [] p = "parse_keyguard_service" -> KgReports
      [] p = "parse_lsmod" -> LsmodReports
      [] p = "parse_mount_points" -> MountReports

FirstPc(p) ==
    CASE p = "parse_usb_manager_state" -> "search"
      [] p = "parse_process_info" -> "proc_collect"
      [] p = "parse_package_install_log" -> "log_scan"
      [] p = "parse_package_info" -> "pkg_collect"
      [] p = "parse_anr_traces" -> "anr_search"
      [] p = "parse_account_service" -> "acc_search"
      [] p = "parse_keyguard_service" -> "kg_collect"
      [] p = "parse_lsmod" -> "lsmod_search"
      [] p = "parse_mount_points" -> "mount_search"

\* the locals of every parser hold what the parser gives them first
Init ==
    /\ parser \in Parsers
    /\ raw \in ReportsFor(parser)
    /\ now_year \in IF parser = "parse_usb_manager_state" THEN NowYears ELSE {2026}
    /\ pc = FirstPc(parser)
    /\ warnings = <<>>
    /\ raised = ""
    /\ result = ""
    /\ block = <<>>
    /\ event_lines = <<>>
    /\ list_events = PyNone
    /\ data = NewUsbManagerData
    /\ start_index = -1
    /\ scan_i = 0
    /\ brace_level = 0
    /\ end_index = -1
    /\ json_like_content = <<>>
    /\ text = <<>>
    /\ parsed_json_data = PyNone
    /\ sub_text = <<>>
    /\ sub_prev = <<>>
    /\ sub_rule = 0
    /\ sub_passes = 0
    /\ report_lines = RawData_lines(raw)
    /\ line_no = 1
    /\ current_section = "None"
    /\ section_lines = <<>>
    /\ info = NewProcessReport
    /\ process_lines_started = FALSE
    /\ in_section = 0
    /\ current_observer = <<>>
    /\ sections = <<>>
    /\ key_no = 1
    /\ log_data = <<>>
    /\ in_package_section = FALSE
    /\ package_content_lines = <<>>
    /\ package_info = NewPackageInfo
    /\ current_package = 0
    /\ current_package_subsection = "None"
    /\ anr_lines = <<>>
    /\ anr_i = 0
    /\ anr_trace = NewAnrTrace
    /\ current_thread = PyNone
    /\ content_lines = <<>>
    /\ account_info = NewAccountInfo
    /\ current_user = PyNone
    /\ parsing_section = "None"
    /\ current_visibility_account = PyNone
    /\ service_info = NewKeyguardServiceInfo
    /\ in_unlock_info = FALSE
    /\ current_user_settings = PyNone
    /\ lsmod_modules = <<>>
    /\ mount_points = <<>>
    /\ hdr_lines = <<>>
    /\ hdr_i = 0
    /\ hdr_key = <<>>
    /\ hdr_value = <<>>
    /\ dumpstate_header = NewDumpstateHeader

SubInit ==
    /\ parser = "re.sub"
    /\ sub_text \in SubTexts
    /\ sub_prev = <<>>
    /\ sub_rule = 0
    /\ sub_passes = 0
    \* no parser runs
    /\ raw = <<>>
    /\ now_year = 2026
    /\ pc = "idle"
    /\ warnings = <<>>
    /\ raised = ""
    /\ result = ""
    /\ block = <<>>
    /\ event_lines = <<>>
    /\ list_events = PyNone
    /\ data = NewUsbManagerData
    /\ start_index = -1
    /\ scan_i = 0
    /\ brace_level = 0
    /\ end_index = -1
    /\ json_like_content = <<>>
    /\ text = <<>>
    /\ parsed_json_data = PyNone
    /\ report_lines = <<>>
    /\ line_no = 1
    /\ current_section = "None"
    /\ section_lines = <<>>
    /\ info = NewProcessReport
    /\ process_lines_started = FALSE
    /\ in_section = 0
    /\ current_observer = <<>>
    /\ sections = <<>>
    /\ key_no = 1
    /\ log_data = <<>>
    /\ in_package_section = FALSE
    /\ package_content_lines = <<>>
    /\ package_info = NewPackageInfo
    /\ current_package = 0
    /\ current_package_subsection = "None"
    /\ anr_lines = <<>>
    /\ anr_i = 0
    /\ anr_trace = NewAnrTrace
    /\ current_thread = PyNone
    /\ content_lines = <<>>
    /\ account_info = NewAccountInfo
    /\ current_user = PyNone
    /\ parsing_section = "None"
    /\ current_visibility_account = PyNone
    /\ service_info = NewKeyguardServiceInfo
    /\ in_unlock_info = FALSE
    /\ current_user_settings = PyNone
    /\ lsmod_modules = <<>>
    /\ mount_points = <<>>
    /\ hdr_lines = <<>>
    /\ hdr_i = 0
    /\ hdr_key = <<>>
    /\ hdr_value = <<>>
    /\ dumpstate_header = NewDumpstateHeader

Next ==
    \/ UsbNext
    \/ ProcNext
    \/ LogNext
    \/ PkgNext
    \/ AnrNext
    \/ AccNext
    \/ KgNext
    \/ SeqNext

Spec == Init /\ [][Next]_vars

SpecSub == SubInit /\ [][SubNext]_vars

(***************************************************************************)
(* The two parsers that walk their lines with a cursor and look ahead,     *)
(* parse_anr_traces and parse_dumpstate_header, each run on its reports.    *)
(***************************************************************************)
CursorParsers == {"parse_anr_traces", "parse_dumpstate_header"}

CursorInit ==
    /\ parser \in CursorParsers
    /\ raw \in IF parser = "parse_anr_traces" THEN AnrReports ELSE HdrReports
    /\ now_year = 2026
    /\ pc = IF parser = "parse_anr_traces" THEN "anr_search" ELSE "hdr_search"
    /\ warnings = <<>>
    /\ raised = ""
    /\ result = ""
    /\ block = <<>>
    /\ event_lines = <<>>
    /\ list_events = PyNone
    /\ data = NewUsbManagerData
    /\ start_index = -1
    /\ scan_i = 0
    /\ brace_level = 0
    /\ end_index = -1
    /\ json_like_content = <<>>
    /\ text = <<>>
    /\ parsed_json_data = PyNone
    /\ sub_text = <<>>
    /\ sub_prev = <<>>
    /\ sub_rule = 0
    /\ sub_passes = 0
    /\ report_lines = RawData_lines(raw)
    /\ line_no = 1
    /\ current_section = "None"
    /\ section_lines = <<>>
    /\ info = NewProcessReport
    /\ process_lines_started = FALSE
    /\ in_section = 0
    /\ current_observer = <<>>
    /\ sections = <<>>
    /\ key_no = 1
    /\ log_data = <<>>
    /\ in_package_section = FALSE
    /\ package_content_lines = <<>>
    /\ package_info = NewPackageInfo
    /\ current_package = 0
    /\ current_package_subsection = "None"
    /\ anr_lines = <<>>
    /\ anr_i = 0
    /\ anr_trace = NewAnrTrace
    /\ current_thread = PyNone
    /\ content_lines = <<>>
    /\ account_info = NewAccountInfo
    /\ current_user = PyNone
    /\ parsing_section = "None"
    /\ current_visibility_account = PyNone
    /\ service_info = NewKeyguardServiceInfo
    /\ in_unlock_info = FALSE
    /\ current_user_settings = PyNone
    /\ lsmod_modules = <<>>
    /\ mount_points = <<>>
    /\ hdr_lines = <<>>
    /\ hdr_i = 0
    /\ hdr_key = <<>>
    /\ hdr_value = <<>>
    /\ dumpstate_header = NewDumpstateHeader

CursorNext ==
    \/ AnrNext
    \/ HdrNext

SpecCursor == CursorInit /\ [][CursorNext]_vars

(***************************************************************************)
(* Properties of parse_usb_manager_state and clean_and_load_json.          *)
(***************************************************************************)
\* the parser is past json.loads
Loaded == pc \in {"device_manager", "host_manager", "return", "done"}

\* the lines of a text that are not blank, stripped
NonBlankLines(t) ==
    LET ls == Split(t, "\n")
    IN  SelectSeq([n \in 1..Len(ls) |-> Strip(ls[n])], LAMBDA l : l /= <<>>)

\* the opening brace of the block: the first '{' that begins a line, optionally after
\* whitespace or blank lines (1-based), or 0
OpeningBrace(t) ==
    IF StartMatch(t, 1) < 0 THEN 0 ELSE RunEnd(t, StartMatch(t, 1) + 1, Ws)

\* the depth after the characters a..p of t
DepthAt(t, a, p) ==
    Cardinality({q \in a..p : t[q] = "{"}) - Cardinality({q \in a..p : t[q] = "}"})

\* the closing brace at which the depth opened at a first returns to zero, or 0
ClosingBrace(t, a) ==
    LET closes == {p \in a..Len(t) : DepthAt(t, a, p) = 0}
    IN  IF a = 0 \/ closes = {} THEN 0 ELSE Min(closes)

\* C3: the body handed to grammar repair is exactly the text strictly between the
\* first opening brace that begins a line (whatever whitespace or blank lines precede
\* it) and the closing brace at which the depth first returns to zero.
C3_BodyBetweenBraces ==
    pc = "rule1" =>
        /\ ClosingBrace(block, OpeningBrace(block)) > 0
        /\ json_like_content =
               Slice(block, OpeningBrace(block) + 1,
                     ClosingBrace(block, OpeningBrace(block)))

\* C4: every line of the USB Event log reaches UsbDeviceManager.add_events as one
\* string equal to the original line stripped, in document order, whatever it contains.
C4_EventLinesUnaltered ==
    (event_lines /= <<>> /\ list_events.t /= "NoneType") =>
        list_events = PyList([n \in 1..Len(event_lines) |-> PyStr(Strip(event_lines[n]))])

\* a numeric literal: -?(0|[1-9]\d*)(\.\d+)?
IsNumberLit(v) ==
    JsonIntEnd(v, 1) > 0 /\ JsonFracEnd(v, JsonIntEnd(v, 1)) = Len(v) + 1

\* the value a right-hand side stands for
TypedValue(v) ==
    IF v = TrueLit THEN PyTrue
    ELSE IF v = FalseLit THEN PyFalse
    ELSE IF v = NullLit THEN PyNone
    ELSE IF IsNumberLit(v) THEN (IF "." \in {v[n] : n \in 1..Len(v)} THEN PyFloat(v)
                                 ELSE PyInt(v))
    ELSE PyStr(v)

KvKey(l) == Slice(l, 1, FindCh(l, 1, {"="}))

KvValue(l) == Slice(l, FindCh(l, 1, {"="}) + 1, Len(l) + 1)

\* a `key=value` line: a key of word characters, a value of plain characters
IsKvLine(l) ==
    /\ FindCh(l, 1, {"="}) \in 2..(Len(l) - 1)
    /\ \A n \in 1..Len(KvKey(l)) : KvKey(l)[n] \in WordCh
    /\ \A n \in 1..Len(KvValue(l)) : KvValue(l)[n] \in WordCh \cup {" ", "-", "."}
    /\ KvValue(l) = Strip(KvValue(l))

\* a well-formed block of `key=value` lines with distinct keys
IsKvBlock(t) ==
    LET ls == NonBlankLines(t)
    IN  /\ ls /= <<>>
        /\ \A n \in 1..Len(ls) : IsKvLine(ls[n])
        /\ \A m, n \in 1..Len(ls) : KvKey(ls[m]) = KvKey(ls[n]) => m = n

KvMapping(t) ==
    LET ls == NonBlankLines(t)
    IN  PyDict([n \in 1..Len(ls) |-> <<KvKey(ls[n]), TypedValue(KvValue(ls[n]))>>])

\* C5: for a well-formed block of `key=value` lines clean_and_load_json returns the
\* mapping of each key to its right-hand side with the right type, whatever the
\* neighbouring lines begin or end with.
C5_KeyValueRoundTrip ==
    (Loaded /\ IsKvBlock(json_like_content)) =>
        parsed_json_data = KvMapping(json_like_content)

IsScalarLit(v) == v \in {TrueLit, FalseLit, NullLit} \/ IsNumberLit(v)

\* an array block: `key=[`, two or more bare scalars on consecutive lines, `]`
IsArrayBlock(t) ==
    LET ls == NonBlankLines(t)
    IN  /\ Len(ls) >= 4
        /\ Len(ls[1]) >= 3
        /\ Slice(ls[1], Len(ls[1]) - 1, Len(ls[1]) + 1) = <<"=", "[">>
        /\ \A n \in 1..(Len(ls[1]) - 2) : ls[1][n] \in WordCh
        /\ ls[Len(ls)] = <<"]">>
        /\ \A n \in 2..(Len(ls) - 1) : IsScalarLit(ls[n])

ArrayMapping(t) ==
    LET ls == NonBlankLines(t)
    IN  PyDict(<<<<Slice(ls[1], 1, Len(ls[1]) - 1),
                   PyList([n \in 1..(Len(ls) - 2) |-> TypedValue(ls[n + 1])])>>>>)

\* C6: an array of n >= 2 bare scalars on consecutive lines parses to the n values in
\* order, for every n.
C6_ArraySeparators ==
    (Loaded /\ IsArrayBlock(json_like_content)) =>
        parsed_json_data = ArrayMapping(json_like_content)

\* the restrictor state of a block
RestrictorOf(t) ==
    IF RestrictorMatch(t).found
    THEN RestrictorLines(Split(Strip(RestrictorMatch(t).group1), "\n"), <<>>)
    ELSE <<>>

\* C8: when the repair-failure diagnostic is emitted no exception reaches the caller,
\* both managers of the returned data are None and the restrictor state is the one
\* extracted before the failure.
C8_FailureDropsSubsection ==
    (pc = "done" /\ warnings /= <<>>) =>
        /\ raised = ""
        /\ result = "data"
        /\ data.device_manager.t = "NoneType"
        /\ data.host_manager.t = "NoneType"
        /\ data.restrictor_state = RestrictorOf(block)

\* C7: each rewrite rule is idempotent: applied a second time to its own output it
\* leaves the text unchanged.
C7_RuleIdempotent == sub_passes = MaxPasses => sub_text = sub_prev

(***************************************************************************)
(* Properties of parse_process_info.                                       *)
(***************************************************************************)
\* the thread (pid, tid) of the report, for a thread the report has
ThreadOf(rep, pid, tid) ==
    DictGet(PyDict(DictGet(PyDict(rep.processes), pid).threads), tid)

HasThread(rep, pid, tid) ==
    /\ DictHas(PyDict(rep.processes), pid)
    /\ DictHas(PyDict(DictGet(PyDict(rep.processes), pid).threads), tid)

\* the occurrence supplies the field: it has it, and not with the empty value a new
\* ThreadInfo has
Supplies(thread_info, key) ==
    thread_info[key].t /= "unset" /\ thread_info[key] /= NewThreadInfo[key]

\* the union of two occurrences of a thread: what the second supplies, else the first
UnionOf(first, second) ==
    [key \in DOMAIN first |-> IF Supplies(second, key) THEN second[key] ELSE first[key]]

\* the ps listing is at a line of a thread that the top listing has reported
PsMeetsTop(second) ==
    /\ pc = "proc_ps"
    /\ process_lines_started
    /\ ~StartsWith(Strip(SectionLines(section_lines, "ps")[line_no]), PsListingHeader)
    /\ second.exc = ""
    /\ HasThread(info, second.ti.pid.v, second.ti.tid.v)
    /\ ThreadOf(info, second.ti.pid.v, second.ti.tid.v).pr.t /= "unset"

MergesToUnion(second) ==
    PsMeetsTop(second) =>
        ThreadOf(info', second.ti.pid.v, second.ti.tid.v) =
            UnionOf(ThreadOf(info, second.ti.pid.v, second.ti.tid.v), second.ti)

\* C2: when the ps listing reports a thread that the top listing has reported, the step
\* of Process.add_thread leaves one record that is the union of both: the fields the ps
\* line supplies, and for every other field (cmd, cpu_percent, virt, res) the value the
\* top line gave.
C2_MergeIsUnion ==
    [][MergesToUnion(ThreadInfo_parse(SectionLines(section_lines, "ps")[line_no], "ps"))]_vars

(***************************************************************************)
(* Properties of parse_package_info.                                       *)
(***************************************************************************)
\* C9: parse_package_info never fails on a line of the package section that does not
\* have its expected shape (a declared permission with a colon and no prot= value, a
\* Service host process PID that is no number, an empty Client PIDs list): once the
\* section holds a line, the call ends without an exception and returns a PackageInfo.
C9_MalformedLineIgnored ==
    (parser = "parse_package_info" /\ pc = "done" /\ package_content_lines /= <<>>) =>
        (raised = "" /\ result = "PackageInfo")

(***************************************************************************)
(* Properties of parse_package_install_log.                                *)
(***************************************************************************)
\* C10: parse_package_install_log never propagates a failure: whatever the report
\* lines are (a START record without a result line, a captured line without a
\* key{value} pair, a record that lacks a key, a START line without a timestamp) the
\* call returns a list with one entry per record, and the entry of a record without a
\* result line keeps the default result 0.
C10_NeverPropagates ==
    (parser = "parse_package_install_log" /\ pc = "done") =>
        /\ raised = ""
        /\ result = "list"
        /\ Len(log_data) = Len(sections)
        /\ \A n \in 1..Len(sections) :
               sections[n][2].result = <<>> => log_data[n].result = PyNum(0)

(***************************************************************************)
(* Properties of a report without the section.                             *)
(***************************************************************************)
\* the report holds no occurrence of the start anchor of the section its parser reads
AnchorAbsent ==
    CASE parser = "parse_usb_manager_state" -> ~Contains(raw, UsbAnchor)
      [] parser = "parse_process_info" ->
            ~Contains(raw, CpuInfoHeader) /\ ~Contains(raw, ProcessesHeader)
      [] parser = "parse_package_install_log" ->
            ~Contains(raw, StartInstallLit) /\ ~Contains(raw, StartDeleteLit)
      [] parser = "parse_package_info" -> ~Contains(raw, PackageAnchor)
      [] OTHER -> FALSE

\* C1: a section parser run on a report that holds no occurrence of the start anchor
\* of its section returns None (no empty record, no empty list) and emits no warning.
C1_AbsenceYieldsNone ==
    (pc = "done" /\ AnchorAbsent) => (raised = "" /\ result = "None" /\ warnings = <<>>)

(***************************************************************************)
(* Properties of the header lines of the nested records.                   *)
(***************************************************************************)
\* the step takes a 'User UserInfo' line of the account service
AtUserHeader ==
    /\ pc = "acc_parse"
    /\ StartsWith(Strip(content_lines[line_no]), UserInfoLit)

\* the step takes the header line of a thread of the trace
AtThreadHeader ==
    /\ pc = "anr_loop"
    /\ StartsWith(anr_lines[anr_i + 1], <<"\"">>)

\* the step takes a 'Package [' line of the Packages section
AtPackageHeader ==
    /\ pc = "pkg_parse"
    /\ current_section = "packages"
    /\ ~IsTopLine(Strip(package_content_lines[line_no]))
    /\ StartsWith(Strip(package_content_lines[line_no]), PackageOpenLit)

\* a 'User UserInfo' line opens a UserAccount, with the default id, name and flags
\* when the line lacks the UserInfo{id:name:flags} shape, and raises nothing
UserHeaderOpens ==
    AtUserHeader =>
        /\ raised' = ""
        /\ current_user' /= PyNone
        /\ (\A p \in 1..Len(content_lines[line_no]) :
                ~UserInfoAt(Strip(content_lines[line_no]), p).ok)
            => /\ current_user'.user_id = NewUserAccount.user_id
               /\ current_user'.user_name = NewUserAccount.user_name
               /\ current_user'.user_flag = NewUserAccount.user_flag

\* a line that starts with '"' opens a Thread, with the default name, priority, tid
\* and status when the line does not match the header pattern
ThreadHeaderOpens ==
    AtThreadHeader =>
        /\ raised' = ""
        /\ current_thread' /= PyNone
        /\ (/\ ReSearch(Strip(anr_lines[anr_i + 1]), DaemonPattern) = <<>>
            /\ ReSearch(Strip(anr_lines[anr_i + 1]), ThreadPattern) = <<>>)
            => /\ current_thread'.name = NewThread.name
               /\ current_thread'.priority = NewThread.priority
               /\ current_thread'.tid = NewThread.tid
               /\ current_thread'.status = NewThread.status

\* a 'Package [' line opens a Package, with the name b'' when the line has no ']'
PackageHeaderOpens ==
    AtPackageHeader =>
        /\ raised' = ""
        /\ Len(package_info'.packages) = Len(package_info.packages) + 1
        /\ ~Contains(package_content_lines[line_no], <<"]">>)
            => package_info'.packages[Len(package_info'.packages)].name = NewPackage.name

\* C11: a header line of a nested record that fails its field-extraction pattern (a
\* 'Package [' line without ']', a line starting with '"' that is no thread header, a
\* 'User UserInfo' line without ':' or without the UserInfo{id:name:flags} shape)
\* still opens a record with default fields; no error is raised and the section is
\* not abandoned.
C11_MalformedHeaderOpensRecord ==
    [][UserHeaderOpens /\ ThreadHeaderOpens /\ PackageHeaderOpens]_vars

C11_ThreadAndPackageHeaders == [][ThreadHeaderOpens /\ PackageHeaderOpens]_vars

(***************************************************************************)
(* Properties of the sections that yield a sequence of records.            *)
(***************************************************************************)
\* an entry line of the lsmod listing: not blank, not the column header, and with
\* the three fields name, size and use count
LsmodEntryLine(line) ==
    /\ Strip(line) /= <<>>
    /\ ~StartsWith(line, ModuleLit)
    /\ Len(SplitWs(Strip(line))) >= 3

\* an entry line of the mount listing: 'device on path type fstype (options)'
MountEntryLine(line) ==
    /\ Strip(line) /= <<>>
    /\ MountMatch(Strip(line)).ok

WellFormedEntries ==
    IF parser = "parse_lsmod"
    THEN Cardinality({n \in 1..Len(content_lines) : LsmodEntryLine(content_lines[n])})
    ELSE Cardinality({n \in 1..Len(content_lines) : MountEntryLine(content_lines[n])})

OutputRecords == IF parser = "parse_lsmod" THEN lsmod_modules ELSE mount_points

SequenceReturned ==
    /\ parser \in {"parse_lsmod", "parse_mount_points"}
    /\ pc = "done"
    /\ result = "list"

\* C12: in a section that yields a sequence of records (lsmod, mount points), a line
\* that does not have the shape of an entry is skipped: the returned sequence holds
\* as many records as the section has well-formed entry lines.
C12_MalformedLineSkipped ==
    SequenceReturned => Len(OutputRecords) = WellFormedEntries

(***************************************************************************)
(* Properties of the line loop of parse_package_info.                      *)
(***************************************************************************)
\* the line the next turn of the loop takes, stripped
PkgStripped == Strip(package_content_lines[line_no])

\* the named subsection headers and the state each one enters
NamedHeaders ==
    {<<DatabaseVersionsLit, "database">>, <<KnownPackagesLit, "known_packages">>,
     <<VerifiersLit, "verifiers">>, <<DomainVerifierLit, "domain_verifier">>,
     <<LibrariesLit, "libraries">>, <<FeaturesLit, "features">>,
     <<PackagesLit, "packages">>}

\* the three information lines of the service, which are no subsection headers
ServiceInfoLine(line) ==
    \/ StartsWith(line, ServicePidLit)
    \/ StartsWith(line, ThreadsInUseLit)
    \/ StartsWith(line, ClientPidsLit)

\* the state a subsection header line enters
HeaderState(line) ==
    IF \E h \in NamedHeaders : StartsWith(line, h[1])
    THEN (CHOOSE h \in NamedHeaders : StartsWith(line, h[1]))[2]
    ELSE "None"

\* a top-level subsection header line
SubsectionHeader(line) ==
    /\ ~ServiceInfoLine(line)
    /\ \/ \E h \in NamedHeaders : StartsWith(line, h[1])
       \/ IsOtherHeader(line)

\* the next turn of the loop takes a subsection header line
AtSubsectionHeader ==
    /\ pc = "pkg_parse"
    /\ SubsectionHeader(PkgStripped)

\* C13: in parse_package_info, whatever the current state and the permission
\* sub-state, a line that is a top-level subsection header (one of the seven named
\* headers or any other capitalised 'Words:' header) sets the current state to the
\* state of that header, None for an unrecognised header, and is stored in no
\* collection of the output.
C13_HeaderSetsState ==
    [][AtSubsectionHeader =>
          /\ current_section' = HeaderState(PkgStripped)
          /\ package_info' = package_info
          /\ raised' = ""]_vars

\* a header line was taken while a permission sub-state of a Package was open and
\* the Packages state was current, and it changed the state
C13_HeaderInSubState ==
    /\ parser = "parse_package_info"
    /\ pc \in {"pkg_parse", "pkg_return"}
    /\ line_no > 1
    /\ current_package_subsection /= "None"
    /\ Len(package_info.packages) > 0
    /\ current_section = "features"
    /\ StartsWith(Strip(package_content_lines[line_no - 1]), FeaturesLit)

\* a turn of the loop changes no Package but the last one of the list it leaves
OnlyNewestPackageChanges ==
    \A n \in 1..Len(package_info.packages) :
        n < Len(package_info'.packages) => package_info'.packages[n] = package_info.packages[n]

\* a 'Package [' line of the Packages state appends one Package, which becomes the
\* current one, and leaves no permission sub-state open
PackageHeaderStartsOne ==
    AtPackageHeader =>
        /\ Len(package_info'.packages) = Len(package_info.packages) + 1
        /\ current_package' = Len(package_info'.packages)
        /\ current_package_subsection' = "None"
        /\ \A n \in 1..Len(package_info.packages) :
               package_info'.packages[n] = package_info.packages[n]

\* a line that is no 'Package [' line of the Packages state adds no Package and
\* leaves the current Package the current one
OtherLineKeepsPackage ==
    (pc = "pkg_parse" /\ ~AtPackageHeader) =>
        /\ Len(package_info'.packages) = Len(package_info.packages)
        /\ current_package' = current_package

Indentation(line) == RunEnd(line, 1, {" "}) - 1

PermissionHeader(line) ==
    \/ StartsWith(line, RuntimePermissionsLit)
    \/ StartsWith(line, InstallPermissionsLit)
    \/ StartsWith(line, DeclaredPermissionsLit)

\* the header line that opened the permission sub-state: the last one before line_no
SubStateHeader ==
    Max({n \in 1..(line_no - 1) : PermissionHeader(Strip(package_content_lines[n]))})

\* the threshold the entry of the sub-state fixes: deeper than its header line
SubStateThreshold == Indentation(package_content_lines[SubStateHeader]) + 1

\* the next turn of the loop takes a line of the current Package while a permission
\* sub-state is open
AtSubStateLine ==
    /\ pc = "pkg_parse"
    /\ current_section = "packages"
    /\ current_package /= 0
    /\ current_package_subsection /= "None"
    /\ PkgStripped /= <<>>
    /\ ~IsTopLine(PkgStripped)
    /\ ~StartsWith(PkgStripped, PackageOpenLit)
    /\ ~PermissionHeader(PkgStripped)
    /\ \E n \in 1..(line_no - 1) : PermissionHeader(Strip(package_content_lines[n]))

\* the line handled as a permission entry of the open sub-state when its indentation
\* reaches the threshold, as a field line of the Package when it does not
SubStateLineHandled ==
    PkgPackageLine(
        PkgState("", package_info, current_section, current_package,
                 IF Indentation(package_content_lines[line_no]) >= SubStateThreshold
                 THEN current_package_subsection ELSE "None"),
        PkgStripped)

\* C15: a permission sub-state of a Package ends at the first line whose indentation
\* is below the threshold fixed when the sub-state was entered; that line is handled
\* as a field line of the Package, and every line at or above the threshold is
\* handled as a permission entry of the open sub-state.
C15_SubStateEndsBelowThreshold ==
    [][AtSubStateLine =>
          /\ package_info' = SubStateLineHandled.package_info
          /\ current_package_subsection' = SubStateLineHandled.current_package_subsection]_vars

(***************************************************************************)
(* Properties of the records still open when their section ends.           *)
(***************************************************************************)
Last(seq) == seq[Len(seq)]

\* the header lines of the threads of the trace
ThreadHeaderLines == {n \in 1..Len(anr_lines) : StartsWith(anr_lines[n], <<"\"">>)}

\* the frame lines after the last thread header
LastThreadFrameLines ==
    {n \in (Max(ThreadHeaderLines) + 1)..Len(anr_lines) :
        \/ StartsWith(Strip(anr_lines[n]), <<"a", "t", " ">>)
        \/ StartsWith(Strip(anr_lines[n]), NativeColon)}

\* the header lines of the users of the account service
UserHeaderLines ==
    {n \in 1..Len(content_lines) : StartsWith(Strip(content_lines[n]), UserInfoLit)}

\* the state the subsection headers before line n leave: that of the last of them
SectionStateAt(n) ==
    IF \E m \in 1..(n - 1) : SubsectionHeader(Strip(package_content_lines[m]))
    THEN HeaderState(Strip(package_content_lines[
             Max({m \in 1..(n - 1) : SubsectionHeader(Strip(package_content_lines[m]))})]))
    ELSE "None"

\* the 'Package [' lines of the Packages state
PackageHeaderLines ==
    {n \in 1..Len(package_content_lines) :
        /\ StartsWith(Strip(package_content_lines[n]), PackageOpenLit)
        /\ ~SubsectionHeader(Strip(package_content_lines[n]))
        /\ SectionStateAt(n) = "packages"}

\* the trace is returned with one Thread for each header line, the last Thread with
\* the frames of all the frame lines after its header
AnrRecordsClosed ==
    (parser = "parse_anr_traces" /\ pc = "done" /\ result = "AnrTrace") =>
        /\ Len(anr_trace.threads) = Cardinality(ThreadHeaderLines)
        /\ ThreadHeaderLines /= {} =>
               /\ Last(anr_trace.threads) = current_thread
               /\ Len(Last(anr_trace.threads).stack_trace)
                      = Cardinality(LastThreadFrameLines)

AccountRecordsClosed ==
    (parser = "parse_account_service" /\ pc = "done" /\ result = "AccountInfo") =>
        /\ Len(account_info.users) = Cardinality(UserHeaderLines)
        /\ UserHeaderLines /= {} => Last(account_info.users) = current_user

PackageRecordsClosed ==
    (parser = "parse_package_info" /\ pc = "done" /\ result = "PackageInfo") =>
        /\ Len(package_info.packages) = Cardinality(PackageHeaderLines)
        /\ PackageHeaderLines /= {} => current_package = Len(package_info.packages)

\* C16: when the section ends while a nested record is open, the record is closed
\* implicitly and is complete in the output: the last Thread with its frames, the
\* last UserAccount and the last Package are present, and the output holds as many
\* threads, users and packages as the section has header lines of each.
C16_OpenRecordClosedAtEnd ==
    AnrRecordsClosed /\ AccountRecordsClosed /\ PackageRecordsClosed

\* a trace is returned whose section ended inside the second thread, after a frame
\* line of that thread
C16_LastThreadOpenAtEnd ==
    /\ parser = "parse_anr_traces"
    /\ pc = "done"
    /\ result = "AnrTrace"
    /\ Cardinality(ThreadHeaderLines) = 2
    /\ Len(anr_lines) \in LastThreadFrameLines
    /\ Len(anr_trace.threads[2].stack_trace) = 1

(***************************************************************************)
(* Properties of the runs of native frames.                                *)
(***************************************************************************)
\* the line the next turn of the loop of parse_anr_traces takes
AnrLine == anr_lines[anr_i + 1]

\* the next turn takes a 'native:' line of the current thread
AtNativeLine ==
    /\ pc = "anr_loop"
    /\ current_thread /= PyNone
    /\ ~StartsWith(AnrLine, <<"\"">>)
    /\ ~StartsWith(Strip(AnrLine), <<"|">>)
    /\ ~StartsWith(Strip(AnrLine), <<"a", "t", " ">>)
    /\ StartsWith(Strip(AnrLine), NativeColon)

\* the last line of the run that begins at the line taken: the 'native: #' lines
\* that follow it without a gap
NativeRunLast ==
    Max({k \in (anr_i + 1)..Len(anr_lines) :
            \A m \in (anr_i + 2)..k : StartsWith(Strip(anr_lines[m]), NativeHash)})

\* C17: in parse_anr_traces a 'native:' line of the current thread and the
\* 'native: #' lines immediately after it are absorbed in one step: each line of
\* the run gives one native StackFrame appended in document order, and the cursor
\* resumes at the first line after the run, so no line of the run is dispatched
\* again and no frame is duplicated or skipped.
C17_NativeRunAbsorbed ==
    [][AtNativeLine =>
          /\ anr_i' = NativeRunLast
          /\ Len(current_thread'.stack_trace)
                 = Len(current_thread.stack_trace) + (NativeRunLast - anr_i)
          /\ \A n \in 1..Len(current_thread.stack_trace) :
                 current_thread'.stack_trace[n] = current_thread.stack_trace[n]
          /\ \A n \in 1..(NativeRunLast - anr_i) :
                 current_thread'.stack_trace[Len(current_thread.stack_trace) + n]
                     = StackFrame_parse(
                           Strip(Replace(anr_lines[anr_i + n], NativeColon, <<>>)), "native")
          /\ anr_trace'.threads = anr_trace.threads]_vars

\* a run of two native lines right after a thread header has been absorbed: the
\* cursor is past both lines and the thread holds their two frames
C17_RunOfTwoAbsorbed ==
    /\ parser = "parse_anr_traces"
    /\ pc \in {"anr_loop", "anr_return"}
    /\ anr_i = 3
    /\ Len(anr_lines) >= 3
    /\ StartsWith(anr_lines[1], <<"\"">>)
    /\ StartsWith(Strip(anr_lines[2]), NativeColon)
    /\ StartsWith(Strip(anr_lines[3]), NativeHash)
    /\ current_thread /= PyNone
    /\ Len(current_thread.stack_trace) = 2
    /\ current_thread.stack_trace[1] /= current_thread.stack_trace[2]
    /\ current_thread.stack_trace[2].frame_type = PyBytes(<<"n", "a", "t", "i", "v", "e">>)

(***************************************************************************)
(* Properties of the section locators that walk the lines of the report.   *)
(***************************************************************************)
\* the lines of the report that begin with a start anchor
AnchorLines(anchor) == {n \in 1..Len(report_lines) : StartsWith(report_lines[n], anchor)}

\* a line that ends a section located by '------ ... was the duration of'
DurationLine(line) == StartsWith(line, SectionPrefix) /\ Contains(line, DurationLit)

\* a line that ends the package section
PackageEndLine(line) == StartsWith(line, ServiceAnchor) \/ StartsWith(line, DashesLit)

\* the first line after line n that ends the keyguard section, Len + 1 without one
KeyguardEndAfter(n) ==
    Min({m \in (n + 1)..(Len(report_lines) + 1) :
            m = Len(report_lines) + 1 \/ DurationLine(report_lines[m])})

\* the first line after line n that ends the package section, Len + 1 without one
PackageEndAfter(n) ==
    Min({m \in (n + 1)..(Len(report_lines) + 1) :
            m = Len(report_lines) + 1 \/ PackageEndLine(report_lines[m])})

\* the section that begins at the first occurrence of the anchor: its header line
\* and the lines up to the first end line after it
FirstKeyguardSection ==
    IF AnchorLines(KeyguardAnchor) = {} THEN <<>>
    ELSE SubSeq(report_lines, Min(AnchorLines(KeyguardAnchor)),
                KeyguardEndAfter(Min(AnchorLines(KeyguardAnchor))) - 1)

\* the lines after the first occurrence of the anchor up to the first end line
FirstPackageSection ==
    IF AnchorLines(PackageAnchor) = {} THEN <<>>
    ELSE SubSeq(report_lines, Min(AnchorLines(PackageAnchor)) + 1,
                PackageEndAfter(Min(AnchorLines(PackageAnchor))) - 1)

KeyguardLocated ==
    parser = "parse_keyguard_service" /\ pc \in {"kg_header", "kg_parse", "kg_return", "done"}

PackageLocated ==
    parser = "parse_package_info" /\ pc \in {"pkg_parse", "pkg_return", "done"}

\* with one occurrence of the start anchor the located section is the first section
SingleAnchorLocated ==
    /\ (KeyguardLocated /\ Cardinality(AnchorLines(KeyguardAnchor)) <= 1)
           => section_lines = FirstKeyguardSection
    /\ (PackageLocated /\ Cardinality(AnchorLines(PackageAnchor)) <= 1)
           => package_content_lines = FirstPackageSection

\* C18: when the start anchor of a section occurs more than once in the report, the
\* located section is the one that begins at the first occurrence and ends at the
\* first end line after it; the later occurrences neither replace nor extend it
\* (KeyguardService and package locators).
C18_FirstOccurrenceWins ==
    /\ KeyguardLocated => section_lines = FirstKeyguardSection
    /\ PackageLocated => package_content_lines = FirstPackageSection

\* the lines the loop of parse_keyguard_service leaves in section_lines: the last
\* header line and the lines after it up to the first duration line
KeyguardRange ==
    IF AnchorLines(KeyguardAnchor) = {} THEN {}
    ELSE {n \in Max(AnchorLines(KeyguardAnchor))..Len(report_lines) :
             \A m \in (Max(AnchorLines(KeyguardAnchor)) + 1)..n :
                 ~DurationLine(report_lines[m])}

\* the lines the loop of parse_package_info appends to package_content_lines: the
\* lines after the first anchor line, the later anchor lines left out, up to the
\* first line that ends the service
PackageRange ==
    IF AnchorLines(PackageAnchor) = {} THEN {}
    ELSE {n \in (Min(AnchorLines(PackageAnchor)) + 1)..Len(report_lines) :
             /\ n \notin AnchorLines(PackageAnchor)
             /\ \A m \in (Min(AnchorLines(PackageAnchor)) + 1)..n :
                    m \in AnchorLines(PackageAnchor) \/ ~PackageEndLine(report_lines[m])}

\* the lines of the report at the positions of S, in the order of the report
LinesAt(S) ==
    [k \in 1..Cardinality(S) |->
        report_lines[CHOOSE n \in S : Cardinality({m \in S : m <= n}) = k]]

\* the ranges are the ones the two loops collect
RangesAsCollected ==
    /\ KeyguardLocated => section_lines = LinesAt(KeyguardRange)
    /\ PackageLocated => package_content_lines = LinesAt(PackageRange)

\* C19: for every report the ranges of lines that two section locators take as the
\* bodies of their sections do not overlap: the range collected for the
\* KeyguardService section holds no line that the package locator takes as a line
\* of the package service.
C19_RangesDisjoint ==
    KeyguardLocated => KeyguardRange \cap PackageRange = {}

(***************************************************************************)
(* Properties of a parser's result when a section elsewhere in the report  *)
(* is removed. The result of a call is computed here as a function of the  *)
(* report, so that it can be compared for two reports.                     *)
(***************************************************************************)
Outcome(res, exc, value) == [result |-> res, raised |-> exc, value |-> value]

\* the loop of parse_lsmod over the lines of the section, from line n
RECURSIVE LsmodFold(_, _, _)
LsmodFold(ls, n, acc) ==
    IF n > Len(ls) THEN Outcome("list", "", acc)
    ELSE IF Strip(ls[n]) /= <<>> /\ ~StartsWith(ls[n], ModuleLit)
    THEN IF LoadedModule_parse(ls[n]).exc /= ""
         THEN Outcome("", LoadedModule_parse(ls[n]).exc, <<>>)
         ELSE LsmodFold(ls, n + 1, Append(acc, LoadedModule_parse(ls[n]).lm))
    ELSE LsmodFold(ls, n + 1, acc)

\* parse_lsmod(RawData(bytes))
LsmodOutcome(bytes) ==
    IF BodyBetween(bytes, LsmodAnchor, SectionEnd)[1] = 0 THEN Outcome("None", "", <<>>)
    ELSE LsmodFold(BodyLines(bytes, BodyBetween(bytes, LsmodAnchor, SectionEnd)), 1, <<>>)

\* the loop of parse_package_install_log over the lines of the report, from line n
RECURSIVE LogScanFold(_, _, _)
LogScanFold(ls, n, st) ==
    IF n > Len(ls) \/ st.exc /= "" THEN st
    ELSE LogScanFold(ls, n + 1,
                     LogScanLine(ls[n], st.in_section, st.current_observer, st.sections))

\* the loop of parse_package_install_log over the records it collected, from record k
RECURSIVE LogBuildFold(_, _, _)
LogBuildFold(secs, k, acc) ==
    IF k > Len(secs) THEN Outcome("list", "", acc)
    ELSE IF LogEntry(secs[k][1], secs[k][2]).exc /= ""
    THEN Outcome("", LogEntry(secs[k][1], secs[k][2]).exc, <<>>)
    ELSE LogBuildFold(secs, k + 1, Append(acc, LogEntry(secs[k][1], secs[k][2]).entry))

LogScanned(st) ==
    IF st.exc /= "" THEN Outcome("", st.exc, <<>>) ELSE LogBuildFold(st.sections, 1, <<>>)

\* parse_package_install_log(RawData(bytes))
LogOutcome(bytes) ==
    LogScanned(LogScanFold(RawData_lines(bytes), 1, LogState("", 0, <<>>, <<>>)))

SectionParsers == {"parse_lsmod", "parse_package_install_log"}

OutcomeOf(p, bytes) ==
    IF p = "parse_lsmod" THEN LsmodOutcome(bytes) ELSE LogOutcome(bytes)

\* the call that ended returned or raised what the function of the report gives
OutcomeAsParsed ==
    (pc = "done" /\ parser \in SectionParsers)
    => OutcomeOf(parser, raw)
       = Outcome(result, raised,
                 IF raised /= "" THEN <<>>
                 ELSE IF parser = "parse_lsmod" THEN lsmod_modules ELSE log_data)

\* a line that opens a section of the report
SectionHeaderLine(line) == StartsWith(line, SectionPrefix) /\ ~DurationLine(line)

HeadersAfter(ls, n) == {k \in (n + 1)..Len(ls) : SectionHeaderLine(ls[k])}

\* the section that directly follows line n, from its header to the line before the next
\* header: its first and last line, <<0, 0>> for none
FollowingSection(ls, n) ==
    IF HeadersAfter(ls, n) = {} THEN <<0, 0>>
    ELSE <<Min(HeadersAfter(ls, n)),
           IF HeadersAfter(ls, Min(HeadersAfter(ls, n))) = {} THEN Len(ls)
           ELSE Min(HeadersAfter(ls, Min(HeadersAfter(ls, n)))) - 1>>

WithoutSection(ls, sec) == SubSeq(ls, 1, sec[1] - 1) \o SubSeq(ls, sec[2] + 1, Len(ls))

\* what parser p looks for in the lines of the report
MarkersOf(p) ==
    IF p = "parse_lsmod" THEN {LsmodHeadLine}
    ELSE {StartInstallLit, StartDeleteLit, ResultOfInstallLit, ResultOfDeleteLit}

MarkerLines(p, ls) == {k \in 1..Len(ls) : \E m \in MarkersOf(p) : Contains(ls[k], m)}

\* the line that places the section of parser p: the header of the first LSMOD section,
\* the last line of the log that the install log parser reads; 0 for none
OwnLine(p, ls) ==
    IF MarkerLines(p, ls) = {} THEN 0
    ELSE IF p = "parse_lsmod" THEN Min(MarkerLines(p, ls)) ELSE Max(MarkerLines(p, ls))

\* the section that follows the one of parser p, when it holds nothing p looks for
Unrelated(p, ls, sec) ==
    IF MarkerLines(p, ls) \cap (sec[1]..sec[2]) = {} THEN sec ELSE <<0, 0>>

UnrelatedFollower(p, ls) ==
    IF OwnLine(p, ls) = 0 THEN <<0, 0>>
    ELSE Unrelated(p, ls, FollowingSection(ls, OwnLine(p, ls)))

ReportLines == Split(raw, "\n")

RemovedReport == Lines(WithoutSection(ReportLines, UnrelatedFollower(parser, ReportLines)))

FollowerRemovable ==
    /\ pc = "done"
    /\ parser \in SectionParsers
    /\ UnrelatedFollower(parser, ReportLines) /= <<0, 0>>

\* the own section ends with its duration line before the section that follows it
OwnSectionEnded ==
    \E k \in OwnLine(parser, ReportLines)..UnrelatedFollower(parser, ReportLines)[1] :
        DurationLine(ReportLines[k])

\* with the duration line of the LSMOD section in place, the result of parse_lsmod does
\* not depend on the section that follows
EndedSectionIndependent ==
    (FollowerRemovable /\ parser = "parse_lsmod" /\ OwnSectionEnded)
    => OutcomeOf(parser, RemovedReport) = OutcomeOf(parser, raw)

\* C20: removing the unrelated section that directly follows a parser's own section
\* leaves the parser's result unchanged
C20_FollowingSectionRemoved ==
    FollowerRemovable => OutcomeOf(parser, RemovedReport) = OutcomeOf(parser, raw)

(***************************************************************************)
(* Properties of the dependence of the records on the time and place of    *)
(* the parse.                                                              *)
(***************************************************************************)
\* the device manager was built from the 'device_manager' entry of the parsed JSON
DeviceManagerBuilt ==
    /\ parser = "parse_usb_manager_state"
    /\ pc = "host_manager"
    /\ DictHas(parsed_json_data, Key_device_manager)

\* what data.device_manager.extract_data does when the parse takes place in year y
DeviceManagerIn(y) ==
    UsbDeviceManager_extract_data(NewUsbDeviceManager,
                                  DictGet(parsed_json_data, Key_device_manager), y)

\* the device manager of the call is the one of the year of the call
DeviceManagerAsBuilt ==
    (DeviceManagerBuilt /\ raised = "" /\ warnings = <<>>)
    => data.device_manager = [t |-> "UsbDeviceManager", v |-> DeviceManagerIn(now_year).self]

\* C21: the records of a parse are a function of the report only: a parse of the same
\* report in another year yields the same USB device manager, events included
C21_SameRecordsAnyYear ==
    DeviceManagerBuilt => \A y \in NowYears : DeviceManagerIn(y) = DeviceManagerIn(now_year)

(***************************************************************************)
(* Properties of the RawData a parser is given. A parser keeps what it     *)
(* collects in locals of its own call; the RawData is the only state that  *)
(* a second parser run before, after or between its steps can see.         *)
(***************************************************************************)
\* RawData.lines is what the constructor computed from RawData.raw
LinesOfRaw == report_lines = RawData_lines(raw)

RawDataKept == raw' = raw /\ report_lines' = report_lines

HostConnections ==
    IF data.host_manager.t = "UsbHostManager" THEN data.host_manager.v.connections
    ELSE <<>>

\* the objects of 'connections' in the parsed JSON the host manager was built from
ConnectionProps ==
    DictGet(DictGet(parsed_json_data, Key_host_manager), Key_connections).v

HostManagerBuilt ==
    /\ parser = "parse_usb_manager_state"
    /\ pc = "return"
    /\ HostConnections /= <<>>

\* the byte fields of a connection hold bytes, absent or not
ByteFieldsSet(uc) ==
    /\ uc.device_address /= PyNone
    /\ uc.manufacturer /= PyNone
    /\ uc.product /= PyNone

\* a connection object without 'mode' leaves the mode 0
AbsentModeZero(uc, props) == ~DictHas(props, Key_mode) => uc.mode = 0

\* C23: a field of an output record that the source does not give holds the empty
\* value of its type: a USB connection object without 'mode', 'device_address',
\* 'manufacturer' or 'product' leaves mode 0 and the byte fields b''
C23_AbsentFieldsEmpty ==
    HostManagerBuilt
    => \A n \in 1..Len(HostConnections) :
          /\ ByteFieldsSet(HostConnections[n])
          /\ AbsentModeZero(HostConnections[n], ConnectionProps[n])

(***************************************************************************)
(* Properties of the records of the install log that share an observer.    *)
(***************************************************************************)
StartLine(line) == Contains(line, StartInstallLit) \/ Contains(line, StartDeleteLit)

\* the START lines with a timestamp that carry the observer obs
StartLinesOf(obs) ==
    {n \in 1..Len(report_lines) :
        /\ StartLine(report_lines[n])
        /\ LogTsMatch(report_lines[n]).found
        /\ get_val(report_lines[n], ObserverLit) = obs}

\* the capture counter lets line n be read as a result line
ReadAtCounterZero(st) == st.current_observer = <<>> \/ st.in_section = 0

ResultOf(line) == LogResultMatch(Slice(line, LogTsMatch(line).end, Len(line) + 1))

\* the 'result of' lines for the observer obs that the loop reads as results
ResultLinesOf(obs) ==
    {n \in 1..Len(report_lines) :
        /\ ~StartLine(report_lines[n])
        /\ Contains(report_lines[n], ResultOfInstallLit)
           \/ Contains(report_lines[n], ResultOfDeleteLit)
        /\ LogTsMatch(report_lines[n]).found
        /\ ResultOf(report_lines[n]).found
        /\ ResultOf(report_lines[n]).observer = obs
        /\ ReadAtCounterZero(LogScanFold(SubSeq(report_lines, 1, n - 1), 1,
                                         LogState("", 0, <<>>, <<>>)))}

\* the loop over the lines has ended without an exception
LogScanDone ==
    /\ parser = "parse_package_install_log"
    /\ pc = "log_build"
    /\ key_no = 1

RepeatedObservers ==
    {obs \in {sections[k][1] : k \in 1..Len(sections)} : Cardinality(StartLinesOf(obs)) >= 2}

KeysOf(obs) == {k \in 1..Len(sections) : sections[k][1] = obs}

TypeOfStart(line) == IF Contains(line, StartInstallLit) THEN "INSTALL" ELSE "DELETE"

\* the record of a repeated observer: one key, at the place of the first START record,
\* with the type and the timestamp of the last one
LaterStartWins ==
    LogScanDone
    => \A obs \in RepeatedObservers :
          /\ Cardinality(KeysOf(obs)) = 1
          /\ \A k \in KeysOf(obs) :
                /\ \A j \in 1..(k - 1) :
                      Min(StartLinesOf(sections[j][1])) < Min(StartLinesOf(obs))
                /\ sections[k][2].type = TypeOfStart(report_lines[Max(StartLinesOf(obs))])
                /\ sections[k][2].timestamp
                   = LogTs(LogTsMatch(report_lines[Max(StartLinesOf(obs))]).ts)

LastResultOf(obs) == ResultOf(report_lines[Max(ResultLinesOf(obs))])

\* C24: the record of an observer that two START records carry has the result of the
\* last 'result of' line read for that observer anywhere in the log
C24_LastResultAnywhere ==
    LogScanDone
    => \A obs \in RepeatedObservers :
          ResultLinesOf(obs) /= {}
          => DictGet(PyDict(sections), obs).result
             = <<PyStr(LastResultOf(obs).action), PyNum(LastResultOf(obs).code)>>

(***************************************************************************)
(* Properties of the capture counter of the install log.                   *)
(***************************************************************************)
CounterInRange == in_section \in 0..4

\* the loop is at a line that is not a START line, with the counter positive
AtCapturedLine ==
    /\ parser = "parse_package_install_log"
    /\ pc = "log_scan"
    /\ ~StartLine(report_lines[line_no])
    /\ in_section > 0

\* the most recent START line before the line the loop is at
RecentStart == Max({n \in 1..(line_no - 1) : StartLine(report_lines[n])})

RecentObserver == get_val(report_lines[RecentStart], ObserverLit)

\* the record that the most recent START line opened takes the line, no other
\* record changes, and the counter goes down by one
CapturedLineAppended ==
    /\ raised' = ""
    /\ in_section' = in_section - 1
    /\ LogTsMatch(report_lines[RecentStart]).found
    /\ DictHas(PyDict(sections), RecentObserver)
    /\ sections'
       = DictSet(sections, RecentObserver,
                 [DictGet(PyDict(sections), RecentObserver) EXCEPT
                     !.data = Append(@, LStrip(report_lines[line_no]))])

\* a START line with a timestamp sets the counter: 4 for INSTALL, 1 for DELETE
AtStartLine ==
    /\ parser = "parse_package_install_log"
    /\ pc = "log_scan"
    /\ StartLine(report_lines[line_no])
    /\ LogTsMatch(report_lines[line_no]).found

StartSetsCounter ==
    [][AtStartLine
       => in_section' = IF Contains(report_lines[line_no], StartInstallLit) THEN 4 ELSE 1]_vars

\* C25: while the capture counter is positive, each line that is not a START line
\* lowers it by one and is appended to the data of the record that the most recent
\* START line opened, which exists
C25_CapturedLineJoinsRecentRecord == [][AtCapturedLine => CapturedLineAppended]_vars

(***************************************************************************)
(* Properties of the permission sub-state across the top-level states of   *)
(* parse_package_info.                                                     *)
(***************************************************************************)
PkgInLoop == parser = "parse_package_info" /\ pc = "pkg_parse"

\* C26: the permission sub-state is not None only while the current state is Packages
\* and a Package is open: a header that leaves the Packages state leaves it None
C26_SubStateOnlyInPackages ==
    (PkgInLoop /\ current_package_subsection /= "None")
    => (current_section = "packages" /\ current_package /= 0)

(***************************************************************************)
(* Properties of the content lines of the subsections keyed by a colon.    *)
(***************************************************************************)
\* a line 'Key: value' with a capitalised key that is none of the named headers and
\* none of the information lines of the service
CapitalKeyLine(line) ==
    /\ line /= <<>>
    /\ line[1] \in Upper
    /\ Contains(line, <<":">>)
    /\ ~ServiceInfoLine(line)
    /\ \A h \in NamedHeaders : ~StartsWith(line, h[1])

KeyOf(line) == SplitOnce(line, <<":">>)[1]

ValueOf(line) == PyBytes(SplitOnce(line, <<":">>)[2])

RequiredStored ==
    (current_section = "verifiers" /\ StartsWith(PkgStripped, RequiredLit))
    => /\ package_info'.verifiers
          = Append(package_info.verifiers,
                   PyBytes(Strip(Replace(PkgStripped, RequiredLit, <<>>))))
       /\ current_section' = current_section

UsingStored ==
    (current_section = "domain_verifier" /\ StartsWith(PkgStripped, UsingLit))
    => /\ package_info'.domain_verifier = PyBytes(Strip(Replace(PkgStripped, UsingLit, <<>>)))
       /\ current_section' = current_section

DatabaseStored ==
    (current_section = "database" /\ CapitalKeyLine(PkgStripped))
    => /\ package_info'.database_versions
          = DictSet(package_info.database_versions, KeyOf(PkgStripped), ValueOf(PkgStripped))
       /\ current_section' = current_section

KnownStored ==
    (current_section = "known_packages" /\ CapitalKeyLine(PkgStripped))
    => /\ package_info'.known_packages
          = DictSet(package_info.known_packages, KeyOf(PkgStripped), ValueOf(PkgStripped))
       /\ current_section' = current_section

\* a content line of the Libraries state is stored and leaves the state as it is
LibraryStored ==
    [][(PkgInLoop /\ current_section = "libraries" /\ Contains(PkgStripped, <<"-", ">">>)
        /\ ~SubsectionHeader(PkgStripped) /\ ~ServiceInfoLine(PkgStripped))
       => /\ package_info'.libraries
             = DictSet(package_info.libraries, SplitOnce(PkgStripped, <<"-", ">">>)[1],
                       PyBytes(SplitOnce(PkgStripped, <<"-", ">">>)[2]))
          /\ current_section' = current_section]_vars

\* C27: in the Verifiers state a 'Required:' line appends its remainder to verifiers, in
\* the DomainVerifier state a 'Using:' line sets domain_verifier, in the Database and
\* KnownPackages states a 'Key: value' line with a capitalised key is stored under the
\* key, and the state stays as it is
C27_ContentLinesStored ==
    [][PkgInLoop => RequiredStored /\ UsingStored /\ DatabaseStored /\ KnownStored]_vars

(***************************************************************************)
(* Properties of the brace scan of parse_usb_manager_state.                *)
(***************************************************************************)
\* the scan reached the end of the block with the depth above zero
ScanUnterminated ==
    /\ parser = "parse_usb_manager_state"
    /\ pc = "done"
    /\ start_index /= -1
    /\ end_index = -1

\* data.restrictor_state as the statements before the scan leave it
ExtractedRestrictor ==
    IF RestrictorMatch(block).found
    THEN RestrictorLines(Split(Strip(RestrictorMatch(block).group1), "\n"),
                         NewUsbManagerData.restrictor_state)
    ELSE NewUsbManagerData.restrictor_state

\* C28: the brace depth is never negative during the scan; when it does not return to
\* zero before the end of the block, nothing is repaired, logged or raised, and the
\* call returns a UsbManagerData with no device manager, no host manager and the
\* restrictor state that was extracted
C28_UnterminatedNesting ==
    /\ brace_level >= 0
    /\ ScanUnterminated
       => /\ result = "data"
          /\ raised = ""
          /\ warnings = <<>>
          /\ text = <<>>
          /\ parsed_json_data = PyNone
          /\ data = [NewUsbManagerData EXCEPT !.restrictor_state = ExtractedRestrictor]

\* a call returned after a scan that ended two levels deep, with a restrictor state
C28_NestedBlockUnterminated ==
    /\ ScanUnterminated
    /\ brace_level >= 2
    /\ data.restrictor_state /= <<>>

(***************************************************************************)
(* Properties of the 'Account visibility:' subsection of a user.           *)
(***************************************************************************)
AccStripped == Strip(content_lines[line_no])

VisibilityLit ==
    <<"A", "c", "c", "o", "u", "n", "t", " ", "v", "i", "s", "i", "b", "i", "l", "i",
          "t", "y", ":">>

\* a line that one of the branches before the content rules takes
AccHeaderLine(line) ==
    \/ StartsWith(line, <<"S", "e", "r", "v", "i", "c", "e", " ", "h", "o", "s", "t", " ", "p", "r", "o",
          "c", "e", "s", "s", " ", "P", "I", "D", ":">>)
    \/ StartsWith(line, <<"T", "h", "r", "e", "a", "d", "s", " ", "i", "n", " ", "u", "s", "e", ":">>)
    \/ StartsWith(line, <<"C", "l", "i", "e", "n", "t", " ", "P", "I", "D", "s", ":">>)
    \/ StartsWith(line, UserInfoLit)
    \/ Contains(line, <<"A", "c", "c", "o", "u", "n", "t", "s", ":">>)
    \/ Contains(line, <<"A", "c", "c", "o", "u", "n", "t", "s", " ", "H", "i", "s", "t", "o", "r", "y">>)
    \/ Contains(line, <<"A", "c", "t", "i", "v", "e", " ", "S", "e", "s", "s", "i", "o", "n", "s", ":">>)
    \/ Contains(line, <<"R", "e", "g", "i", "s", "t", "e", "r", "e", "d", "S", "e", "r", "v", "i", "c",
          "e", "s", "C", "a", "c", "h", "e", ":">>)
    \/ Contains(line, VisibilityLit)
    \/ StartsWith(line, <<"-", "-", "-", "-", "-", "-", "-", "-", "-">>)

\* the loop is at a line of the visibility subsection of the current user
AtVisibilityLine ==
    /\ parser = "parse_account_service"
    /\ pc = "acc_parse"
    /\ current_user /= PyNone
    /\ parsing_section = "visibility"
    /\ AccStripped /= <<>>
    /\ ~AccHeaderLine(AccStripped)

\* the header of the subsection the loop is in
VisibilityHeader ==
    Max({n \in 1..(line_no - 1) : Contains(content_lines[n], VisibilityLit)})

\* an account-name line stands one step (two spaces) below the header of the
\* subsection, a detail line of an account deeper
AccountNameLine(n) ==
    Indentation(content_lines[n]) = Indentation(content_lines[VisibilityHeader]) + 2

\* the account-name lines of the subsection up to line n
NamesUpTo(n) == {k \in (VisibilityHeader + 1)..n : AccountNameLine(k)}

NameLineOpensKey ==
    /\ AccountNameLine(line_no)
    /\ ~DictHas(PyDict(current_user.account_visibility), AccStripped)
    => /\ current_user'.account_visibility
          = Append(current_user.account_visibility, <<AccStripped, <<>> >>)
       /\ current_visibility_account' = PyBytes(AccStripped)

DetailLineJoinsLastKey ==
    /\ ~AccountNameLine(line_no)
    /\ NamesUpTo(line_no) /= {}
    => current_user'.account_visibility
       = DictSet(current_user.account_visibility,
                 Strip(content_lines[Max(NamesUpTo(line_no))]),
                 Append(DictGet(PyDict(current_user.account_visibility),
                                Strip(content_lines[Max(NamesUpTo(line_no))])),
                        AccStripped))

\* a 'User UserInfo' line that raises nothing resets the sub-state and the current
\* visibility account
UserLineResets ==
    [][(parser = "parse_account_service" /\ pc = "acc_parse"
        /\ StartsWith(AccStripped, UserInfoLit) /\ raised' = "")
       => parsing_section' = "None" /\ current_visibility_account' = PyNone]_vars

\* C29: in the 'Account visibility:' subsection of a user each account-name line opens
\* a new key of account_visibility and each detail line is appended to the account
\* opened last, so a subsection of k accounts yields k keys
C29_VisibilityGroupedPerAccount ==
    [][AtVisibilityLine => NameLineOpensKey /\ DetailLineJoinsLastKey]_vars

(***************************************************************************)
(* The cursors of the two loops that look ahead (parse_anr_traces and      *)
(* parse_dumpstate_header).                                                *)
(***************************************************************************)
\* the cursor never passes the end of the lines
CursorInRange ==
    /\ anr_i >= 0 /\ anr_i <= Len(anr_lines)
    /\ hdr_i >= 0 /\ hdr_i <= Len(hdr_lines)

\* one turn of the outer loop of parse_anr_traces takes the line at the cursor and,
\* after a 'native:' line of the current thread, the 'native: #' lines of its run:
\* the cursor moves past exactly the lines taken
AnrTurnAdvances ==
    pc = "anr_loop" =>
        /\ anr_i' > anr_i
        /\ anr_i' = IF AtNativeLine THEN NativeRunLast ELSE anr_i + 1

\* the outer dispatch of parse_dumpstate_header takes the line at the cursor and
\* the look-ahead takes one line a turn: the cursor moves past the line taken
HdrLineAdvances ==
    /\ pc = "hdr_loop" /\ hdr_i < Len(hdr_lines) => hdr_i' = hdr_i + 1
    /\ pc = "hdr_ahead" /\ pc' = "hdr_ahead" =>
          /\ hdr_i' = hdr_i + 1
          /\ ~Contains(hdr_lines[hdr_i'], <<":">>)

\* the statements between the look-ahead and the next test of the outer loop
\* ('i -= 1', the field, 'i += 1') leave the cursor on the line the look-ahead
\* stopped at, so the outer dispatch takes it next and no line is taken twice
HdrFieldKeepsCursor ==
    pc = "hdr_ahead" /\ pc' = "hdr_loop" => hdr_i' = hdr_i

\* what a call has left to do at most: it falls with every step
CursorVariant ==
    IF pc = "done" THEN 0
    ELSE IF pc \in {"anr_search", "hdr_search"} THEN 2 * Len(raw) + 4
    ELSE IF pc = "anr_return" THEN 1
    ELSE IF pc = "anr_loop" THEN 2 * (Len(anr_lines) - anr_i) + 2
    ELSE IF pc = "hdr_loop" THEN 2 * (Len(hdr_lines) - hdr_i) + 1
    ELSE 2 * (Len(hdr_lines) - hdr_i) + 2

\* both loops end: the variant is never negative and every step lowers it
CursorLoopsEnd ==
    /\ [](CursorVariant >= 0)
    /\ [][CursorVariant' < CursorVariant]_vars

\* the turns of both loops move the cursor forward past the lines they take,
\* within the lines
CursorsAdvanceInRange ==
    /\ []CursorInRange
    /\ [][AnrTurnAdvances /\ HdrLineAdvances /\ HdrFieldKeepsCursor]_vars

\* a call that found its section is over with the cursor at the end of the lines
AllLinesTaken ==
    pc = "done" /\ result /= "None" =>
        /\ parser = "parse_anr_traces" => anr_i = Len(anr_lines)
        /\ parser = "parse_dumpstate_header" => hdr_i = Len(hdr_lines)

\* C30: the two cursor loops with inner look-ahead (parse_anr_traces and
\* parse_dumpstate_header) end on every report: the line index rises on every turn
\* of the outer loop and never passes the number of lines, and every line is taken
\* exactly once, by the outer dispatch or by the look-ahead, so that a call that
\* found its section is over with the index at the number of lines.
C30_CursorLoopsTakeEveryLineOnce ==
    /\ CursorLoopsEnd
    /\ CursorsAdvanceInRange
    /\ []AllLinesTaken

\* a multi-line value has been collected by the look-ahead and its field is set
HdrValueOfTwoLines ==
    /\ parser = "parse_dumpstate_header"
    /\ pc = "hdr_loop"
    /\ hdr_i >= 2
    /\ Contains(hdr_value, <<"\n">>)
    /\ dumpstate_header.kernel = PyBytes(hdr_value)

=============================================================================
